---- MODULE Spec2Model ----
(***************************************************************************)
(* The hours tracker (team-9143/hours-tracker): the time-accounting state  *)
(* machine of src/main.ts with the admin menu of src/menu.ts and the       *)
(* custom function of src/functions.ts.                                     *)
(*                                                                          *)
(* Times are JavaScript Date values: milliseconds.  The origin of the       *)
(* model's clock is a Monday 00:00 local time (the script's zone has no     *)
(* daylight-saving change in the modelled span), so every instant stays     *)
(* below 2^31 ms and TLC's integers never overflow.                         *)
(***************************************************************************)
EXTENDS Integers, Sequences, FiniteSets, TLC

VARIABLES
  sheet,   \* 'Result Sheet': the week headers and the member rows
  now,     \* Date.now()
  last,    \* the handler that ran last, its inputs, the sheet before it, its error
  nOps     \* number of handlers run so far

vars == <<sheet, now, last, nOps>>

-----------------------------------------------------------------------------
(* Program constants *)

firstDataRowIndex == 2
timeoutReturnTime == 1800000
timeoutReq == 11700000
weekMs == 604800000
dayMs == 86400000
missedTimeMultiplier == 2

-----------------------------------------------------------------------------
(* Bounds of the model *)

MaxWeek == 2      \* the clock runs to the start of week MaxWeek (plus a check-in)
MaxOps == 2       \* handlers run in one behaviour, after the first form
Addresses == {"a1", "a2"}

\* The instants the clock visits.  Week 0: the Monday 00:00:00.0, half a
\* second later, and timeoutReq after that.  Each later week w: its Monday
\* 00:00 (exactly w weeks after the first marker) and timeoutReq and a half
\* second into it.  And the Sunday before the last Monday.
Instants ==
  {0, 500, timeoutReq + 500}
    \cup {w * weekMs : w \in 1..MaxWeek}
    \cup {w * weekMs + timeoutReq + 500 : w \in 1..MaxWeek}
    \cup {MaxWeek * weekMs - dayMs + timeoutReq}

-----------------------------------------------------------------------------
(* Duration codec.  A duration text "H:M:S" is kept as its sign and its    *)
(* three numeric components; any other text of a cell is "text", an empty  *)
(* cell is "blank".                                                        *)

Dur(neg, h, m, s) == [kind |-> "dur", neg |-> neg, h |-> h, m |-> m, s |-> s]
Blank == [kind |-> "blank", neg |-> FALSE, h |-> 0, m |-> 0, s |-> 0]
Text == [kind |-> "text", neg |-> FALSE, h |-> 0, m |-> 0, s |-> 0]
Zero == Dur(FALSE, 0, 0, 0)

\* getUTCDate()-1 of the date `days` whole days after the epoch (1970 and
\* 1971 have 365 days each).
RECURSIVE DayOfMonth0(_, _)
DayOfMonth0(dayOfYear, month) ==
  LET len == <<31, 28, 31, 30, 31, 30, 31, 31, 30, 31, 30, 31>>[month]
  IN IF dayOfYear < len THEN dayOfYear ELSE DayOfMonth0(dayOfYear - len, month + 1)

\* formatElapsedTime on a magnitude of whole seconds
formatSeconds(isNegative, secs) ==
  LET days == secs \div 86400
      hours == DayOfMonth0(days % 365, 1) * 24 + (secs % 86400) \div 3600
  IN Dur(isNegative, hours, (secs % 3600) \div 60, secs % 60)

formatElapsedTime(date) ==
  LET isNegative == date < 0
      localDate == IF isNegative THEN -date ELSE date
  IN formatSeconds(isNegative, localDate \div 1000)

\* Number(hours) * 3600 + Number(minutes) * 60 + Number(seconds): the sign
\* of the text is the sign of its hours component only.
durationSeconds(d) ==
  (IF d.neg THEN -d.h ELSE d.h) * 3600 + d.m * 60 + d.s

\* durationToDate: [ok, ms]; ok = FALSE is the throw 'Invalid duration'
durationToDate(duration) ==
  IF duration.kind = "dur"
    THEN [ok |-> TRUE, ms |-> durationSeconds(duration) * 1000]
    ELSE [ok |-> FALSE, ms |-> 0]

-----------------------------------------------------------------------------
(* formatMetadata, on a text given as the sequence of its characters *)

IsSpace(c) == c \in {" ", "\n", "\r", "\t"}

RECURSIVE TrimStart(_)
TrimStart(str) ==
  IF str # <<>> /\ IsSpace(Head(str)) THEN TrimStart(Tail(str)) ELSE str

RECURSIVE TrimEnd(_)
TrimEnd(str) ==
  IF str # <<>> /\ IsSpace(str[Len(str)])
    THEN TrimEnd(SubSeq(str, 1, Len(str) - 1)) ELSE str

trim(str) == TrimEnd(TrimStart(str))

toLowerCase(str) ==
  [i \in 1..Len(str) |->
     CASE str[i] = "N" -> "n" [] str[i] = "A" -> "a" [] OTHER -> str[i]]

\* a replace that takes the two characters of "\r\n" for two line breaks
RECURSIVE replaceLineBreaksEach(_)
replaceLineBreaksEach(str) ==
  IF str = <<>> THEN <<>>
  ELSE IF str[1] \in {"\n", "\r"}
    THEN <<";", " ">> \o replaceLineBreaksEach(Tail(str))
  ELSE <<str[1]>> \o replaceLineBreaksEach(Tail(str))

\* replace(/\r?\n|\r/g, '; ')
RECURSIVE replaceLineBreaks(_)
replaceLineBreaks(str) ==
  IF str = <<>> THEN <<>>
  ELSE IF Len(str) >= 2 /\ str[1] = "\r" /\ str[2] = "\n"
    THEN <<";", " ">> \o replaceLineBreaks(SubSeq(str, 3, Len(str)))
  ELSE IF str[1] \in {"\n", "\r"}
    THEN <<";", " ">> \o replaceLineBreaks(Tail(str))
  ELSE <<str[1]>> \o replaceLineBreaks(Tail(str))

formatMetadata(metadata) ==
  LET m == trim(metadata)
  IN IF m = <<>> \/ toLowerCase(m) = <<"n", "/", "a">>
       THEN <<"N", "/", "A">>
       ELSE replaceLineBreaks(m)

-----------------------------------------------------------------------------
(* The sheet.  headers[c] and row.weeks[c] are column currentWeekColIndex- *)
(* 1+c: column 1 of the two is the current week, the last one the oldest.  *)
(* A check-in cell is <<>> when blank and <<t>> when it holds the date t.  *)

Cell(val, note) == [val |-> val, note |-> note]

NewRow(id) ==
  [address |-> id, hourReq |-> Dur(FALSE, 6, 0, 0), checkIn |-> <<>>,
   timeouts |-> 0, weeks |-> <<>>]

numDataRows(s) == Len(s.rows)
lastRow(s) == firstDataRowIndex + numDataRows(s) - 1
RowAt(s, rowIndex) == s.rows[rowIndex - firstDataRowIndex + 1]
SetRow(s, rowIndex, row) ==
  [s EXCEPT !.rows[rowIndex - firstDataRowIndex + 1] = row]

\* members after updateVars()
members(s) == [i \in 1..Len(s.rows) |-> s.rows[i].address]

\* members.indexOf(address) + firstDataRowIndex; firstDataRowIndex - 1 when absent
indexOf(s, address) ==
  IF \E i \in 1..Len(s.rows) : s.rows[i].address = address
    THEN firstDataRowIndex - 1
           + (CHOOSE i \in 1..Len(s.rows) :
                /\ s.rows[i].address = address
                /\ \A j \in 1..(i - 1) : s.rows[j].address # address)
    ELSE firstDataRowIndex - 1

\* the value of the header of the current week's column, read as a date
currentWeekMarker(s) == s.headers[1]

\* the value a week cell shows to SUM(): a duration counts, anything else is 0
LoggedMs(cell) == IF cell.val.kind = "dur" THEN durationSeconds(cell.val) * 1000 ELSE 0

RECURSIVE SumMs(_)
SumMs(cells) == IF cells = <<>> THEN 0 ELSE LoggedMs(Head(cells)) + SumMs(Tail(cells))

totalHours(row) == SumMs(row.weeks)

\* getFilter().sort(totalHoursColIndex, false): by total hours, descending;
\* rows of equal total keep their order
RECURSIVE insertSorted(_, _)
insertSorted(row, sorted) ==
  IF sorted = <<>> THEN <<row>>
  ELSE IF totalHours(Head(sorted)) >= totalHours(row)
    THEN <<Head(sorted)>> \o insertSorted(row, Tail(sorted))
    ELSE <<row>> \o sorted

RECURSIVE sortRows(_)
sortRows(rows) ==
  IF rows = <<>> THEN <<>>
  ELSE LET n == Len(rows)
       IN insertSorted(rows[n], sortRows(SubSeq(rows, 1, n - 1)))

-----------------------------------------------------------------------------
(* src/main.ts.  A function that can throw returns [s, err]: the sheet as  *)
(* it is when the function returns or throws, and the thrown text ("none"  *)
(* when it returns).                                                       *)

Ok(s) == [s |-> s, err |-> "none"]
Throw(s, e) == [s |-> s, err |-> e]

\* weekStart.getDay() || 7 (the clock's origin is a Monday 00:00)
getDay(t) == ((t \div dayMs) + 1) % 7
\* the day number without "|| 7": Sunday is 0
dayNumSundayZero(t) == getDay(t)

dayNum(t) == IF getDay(t) = 0 THEN 7 ELSE getDay(t)

\* setHours(-24 * (dayNum-1)); setMinutes(0, 0, 0)
weekStart(t) == (t \div dayMs) * dayMs - 24 * 3600000 * (dayNum(t) - 1)

\* timeDateFormatter.format(date): weekday, hour, minute and second
timeDateFormatter(t) ==
  [tag |-> "checkin", day |-> getDay(t), time |-> (t % dayMs) \div 1000]
adminStack == [tag |-> "admin", day |-> 0, time |-> 0]

\* insertColumnBefore(currentWeekColIndex), the header set to the Monday (read
\* back as that date), the column's cells of every row set to '0:0:0'
RECURSIVE insertColumnBefore(_)
insertColumnBefore(rows) ==
  IF rows = <<>> THEN <<>>
  ELSE <<[Head(rows) EXCEPT !.weeks = <<Cell(Zero, <<>>)>> \o @]>>
         \o insertColumnBefore(Tail(rows))

openWeek(s, monday) ==
  [headers |-> <<monday>> \o s.headers, rows |-> insertColumnBefore(s.rows)]

\* startWeek that leaves the marker at the previous week's Monday
startWeekKeepsMarker(s, t) == openWeek(s, currentWeekMarker(s))

\* startWeek that also opens the week before the present one when that
\* week has no column yet
startWeekBackfills(s, t) ==
  IF weekStart(t) - currentWeekMarker(s) > weekMs
    THEN openWeek(openWeek(s, weekStart(t) - weekMs), weekStart(t))
    ELSE openWeek(s, weekStart(t))

startWeek(s, t) == openWeek(s, weekStart(t))

\* addHours from the parse of the logged time on: the part after the
\* rollover check
logHours(s, rowIndex, elapsed, callStack, metadata) ==
  LET logCell == RowAt(s, rowIndex).weeks[1]
      parsed == durationToDate(logCell.val)
      time == parsed.ms + elapsed
      entry == [amount |-> formatElapsedTime(elapsed), from |-> callStack,
                for |-> formatMetadata(metadata)]
  IN IF ~parsed.ok THEN Throw(s, "Invalid duration")
     ELSE IF time < 0 THEN Throw(s, "Cannot log a negative number of hours")
     ELSE Ok(SetRow(s, rowIndex,
                    [RowAt(s, rowIndex) EXCEPT
                       !.weeks[1] = Cell(formatElapsedTime(time),
                                         Append(logCell.note, entry))]))

\* addHours that stores Math.max(0, time) instead of throwing
addHoursFloored(s, rowIndex, elapsed, callStack, metadata, t) ==
  LET s1 == IF t - currentWeekMarker(s) > weekMs THEN startWeek(s, t) ELSE s
      logCell == RowAt(s1, rowIndex).weeks[1]
      parsed == durationToDate(logCell.val)
      time == IF parsed.ms + elapsed < 0 THEN 0 ELSE parsed.ms + elapsed
      entry == [amount |-> formatElapsedTime(elapsed), from |-> callStack,
                for |-> formatMetadata(metadata)]
  IN IF ~parsed.ok THEN Throw(s1, "Invalid duration")
     ELSE Ok(SetRow(s1, rowIndex,
                    [RowAt(s1, rowIndex) EXCEPT
                       !.weeks[1] = Cell(formatElapsedTime(time),
                                         Append(logCell.note, entry))]))

\* addHours without the test for a negative result
addHoursUnchecked(s, rowIndex, elapsed, callStack, metadata, t) ==
  LET s1 == IF t - currentWeekMarker(s) > weekMs THEN startWeek(s, t) ELSE s
      logCell == RowAt(s1, rowIndex).weeks[1]
      parsed == durationToDate(logCell.val)
      time == parsed.ms + elapsed
      entry == [amount |-> formatElapsedTime(elapsed), from |-> callStack,
                for |-> formatMetadata(metadata)]
  IN IF ~parsed.ok THEN Throw(s1, "Invalid duration")
     ELSE Ok(SetRow(s1, rowIndex,
                    [RowAt(s1, rowIndex) EXCEPT
                       !.weeks[1] = Cell(formatElapsedTime(time),
                                         Append(logCell.note, entry))]))

\* addHours without the check for a new week
addHoursNeverRolls(s, rowIndex, elapsed, callStack, metadata, t) ==
  logHours(s, rowIndex, elapsed, callStack, metadata)

addHours(s, rowIndex, elapsed, callStack, metadata, t) ==
  LET s1 == IF t - currentWeekMarker(s) > weekMs THEN startWeek(s, t) ELSE s
      logCell == RowAt(s1, rowIndex).weeks[1]
      parsed == durationToDate(logCell.val)
      time == parsed.ms + elapsed
      entry == [amount |-> formatElapsedTime(elapsed), from |-> callStack,
                for |-> formatMetadata(metadata)]
  IN IF ~parsed.ok THEN Throw(s1, "Invalid duration")
     ELSE IF time < 0 THEN Throw(s1, "Cannot log a negative number of hours")
     ELSE Ok(SetRow(s1, rowIndex,
                    [RowAt(s1, rowIndex) EXCEPT
                       !.weeks[1] = Cell(formatElapsedTime(time),
                                         Append(logCell.note, entry))]))

checkIn(s, rowIndex, t) ==
  SetRow(s, rowIndex, [RowAt(s, rowIndex) EXCEPT !.checkIn = <<t>>])

\* checkOut without the test of the check-in cell: the blank cell's
\* getTime() is a TypeError
checkOutUnguarded(s, rowIndex, metadata, t) ==
  LET checkInTime == RowAt(s, rowIndex).checkIn
  IN IF checkInTime = <<>> THEN Throw(s, "TypeError")
     ELSE LET r == addHours(s, rowIndex, t - checkInTime[1],
                            timeDateFormatter(checkInTime[1]), metadata, t)
          IN IF r.err # "none" THEN r
             ELSE Ok(SetRow(r.s, rowIndex,
                            [RowAt(r.s, rowIndex) EXCEPT !.checkIn = <<>>]))

\* checkOut that credits timeoutReturnTime instead of the elapsed time
checkOutCreditsReturnTime(s, rowIndex, metadata, t) ==
  LET checkInTime == RowAt(s, rowIndex).checkIn
  IN IF checkInTime # <<>>
       THEN LET r == addHours(s, rowIndex, timeoutReturnTime,
                              timeDateFormatter(checkInTime[1]), metadata, t)
            IN IF r.err # "none" THEN r
               ELSE Ok(SetRow(r.s, rowIndex,
                              [RowAt(r.s, rowIndex) EXCEPT !.checkIn = <<>>]))
       ELSE Ok(s)

\* checkOut that removes the check-in data before it adds the hours
checkOutClearsFirst(s, rowIndex, metadata, t) ==
  LET checkInTime == RowAt(s, rowIndex).checkIn
      cleared == SetRow(s, rowIndex, [RowAt(s, rowIndex) EXCEPT !.checkIn = <<>>])
  IN IF checkInTime # <<>>
       THEN addHours(cleared, rowIndex, t - checkInTime[1],
                     timeDateFormatter(checkInTime[1]), metadata, t)
       ELSE Ok(s)

\* checkOut that treats a check-in older than timeoutReq as the sweep does
checkOutTimesOut(s, rowIndex, metadata, t) ==
  LET checkInTime == RowAt(s, rowIndex).checkIn
      late == checkInTime # <<>> /\ t - checkInTime[1] > timeoutReq
  IN IF checkInTime # <<>>
       THEN LET r == addHours(s, rowIndex,
                              IF late THEN timeoutReturnTime ELSE t - checkInTime[1],
                              timeDateFormatter(checkInTime[1]), metadata, t)
            IN IF r.err # "none" THEN r
               ELSE Ok(SetRow(r.s, rowIndex,
                              [RowAt(r.s, rowIndex) EXCEPT
                                 !.checkIn = <<>>,
                                 !.timeouts = IF late THEN @ + 1 ELSE @]))
       ELSE Ok(s)

checkOut(s, rowIndex, metadata, t) ==
  LET checkInTime == RowAt(s, rowIndex).checkIn
  IN IF checkInTime # <<>>
       THEN LET r == addHours(s, rowIndex, t - checkInTime[1],
                              timeDateFormatter(checkInTime[1]), metadata, t)
            IN IF r.err # "none" THEN r
               ELSE Ok(SetRow(r.s, rowIndex,
                              [RowAt(r.s, rowIndex) EXCEPT !.checkIn = <<>>]))
       ELSE Ok(s)

Timeout == <<"T", "i", "m", "e", "o", "u", "t">>

\* timeout that credits the time elapsed since the check-in
timeoutCreditsElapsed(s, rowIndex, t) ==
  LET checkInTime == RowAt(s, rowIndex).checkIn
  IN IF checkInTime # <<>>
       THEN LET r == addHours(s, rowIndex, t - checkInTime[1],
                              timeDateFormatter(checkInTime[1]), Timeout, t)
            IN IF r.err # "none" THEN r
               ELSE Ok(SetRow(r.s, rowIndex,
                              [RowAt(r.s, rowIndex) EXCEPT
                                 !.checkIn = <<>>, !.timeouts = @ + 1]))
       ELSE Ok(s)

\* timeout that leaves the check-in time in its cell
timeoutKeepsCheckIn(s, rowIndex, t) ==
  LET checkInTime == RowAt(s, rowIndex).checkIn
  IN IF checkInTime # <<>>
       THEN LET r == addHours(s, rowIndex, timeoutReturnTime,
                              timeDateFormatter(checkInTime[1]), Timeout, t)
            IN IF r.err # "none" THEN r
               ELSE Ok(SetRow(r.s, rowIndex,
                              [RowAt(r.s, rowIndex) EXCEPT !.timeouts = @ + 1]))
       ELSE Ok(s)

timeout(s, rowIndex, t) ==
  LET checkInTime == RowAt(s, rowIndex).checkIn
  IN IF checkInTime # <<>>
       THEN LET r == addHours(s, rowIndex, timeoutReturnTime,
                              timeDateFormatter(checkInTime[1]), Timeout, t)
            IN IF r.err # "none" THEN r
               ELSE Ok(SetRow(r.s, rowIndex,
                              [RowAt(r.s, rowIndex) EXCEPT
                                 !.checkIn = <<>>, !.timeouts = @ + 1]))
       ELSE Ok(s)

\* the row indexes, in ascending order, of the rows timeoutCheck() returns
\* the test of timeoutCheck with >= for >
isTimedOutInclusive(s, rowIndex, t) ==
  LET val == RowAt(s, rowIndex).checkIn
  IN val # <<>> /\ t - val[1] >= timeoutReq

isTimedOut(s, rowIndex, t) ==
  LET val == RowAt(s, rowIndex).checkIn
  IN val # <<>> /\ t - val[1] > timeoutReq

RECURSIVE timeoutCheckFrom(_, _, _)
timeoutCheckFrom(s, rowIndex, t) ==
  IF rowIndex > lastRow(s) THEN <<>>
  ELSE (IF isTimedOut(s, rowIndex, t) THEN <<rowIndex>> ELSE <<>>)
         \o timeoutCheckFrom(s, rowIndex + 1, t)

timeoutCheck(s, t) == timeoutCheckFrom(s, firstDataRowIndex, t)

\* timeoutCheck().forEach(rowIndex => timeout(rowIndex)): a throw ends the loop
RECURSIVE forEachTimeout(_, _, _)
forEachTimeout(s, rowIndexes, t) ==
  IF rowIndexes = <<>> THEN Ok(s)
  ELSE LET r == timeout(s, Head(rowIndexes), t)
       IN IF r.err # "none" THEN r ELSE forEachTimeout(r.s, Tail(rowIndexes), t)

updateTimeouts(s, t) == forEachTimeout(s, timeoutCheck(s, t), t)

\* the cells of an inserted row under the n columns of earlier weeks
RECURSIVE blankCells(_)
blankCells(n) == IF n = 0 THEN <<>> ELSE <<Cell(Blank, <<>>)>> \o blankCells(n - 1)

addMember(s, id) ==
  LET row == [NewRow(id) EXCEPT
                !.weeks = <<Cell(Zero, <<>>)>> \o blankCells(Len(s.headers) - 1)]
  IN [s EXCEPT !.rows = sortRows(<<row>> \o s.rows)]

\* onFormSubmit that checks out only on "Out"
onFormSubmitInOverwrites(s, address, input, metadata, t) ==
  LET s1 == IF indexOf(s, address) = firstDataRowIndex - 1
              THEN addMember(s, address) ELSE s
      rowIndex == indexOf(s1, address)
  IN IF input = "In" THEN Ok(checkIn(s1, rowIndex, t))
     ELSE checkOut(s1, rowIndex, metadata, t)

\* onFormSubmit that adds a row for every submission
onFormSubmitAlwaysAdds(s, address, input, metadata, t) ==
  LET s1 == addMember(s, address)
      rowIndex == indexOf(s1, address)
      r == checkOut(s1, rowIndex, metadata, t)
  IN IF r.err # "none" THEN r
     ELSE IF input = "In" THEN Ok(checkIn(r.s, rowIndex, t))
     ELSE r

\* onFormSubmit that toggles: an "In" form of a checked-in row checks it out
onFormSubmitToggles(s, address, input, metadata, t) ==
  LET s1 == IF indexOf(s, address) = firstDataRowIndex - 1
              THEN addMember(s, address) ELSE s
      rowIndex == indexOf(s1, address)
      r == checkOut(s1, rowIndex, metadata, t)
  IN IF r.err # "none" THEN r
     ELSE IF input = "In" /\ RowAt(s1, rowIndex).checkIn = <<>>
       THEN Ok(checkIn(r.s, rowIndex, t))
     ELSE r

onFormSubmit(s, address, input, metadata, t) ==
  LET s1 == IF indexOf(s, address) = firstDataRowIndex - 1
              THEN addMember(s, address) ELSE s
      rowIndex == indexOf(s1, address)
      r == checkOut(s1, rowIndex, metadata, t)
  IN IF r.err # "none" THEN r
     ELSE IF input = "In" THEN Ok(checkIn(r.s, rowIndex, t))
     ELSE r

-----------------------------------------------------------------------------
(* src/menu.ts.  A prompt's answer is [button, text]; the answer to the    *)
(* hours prompt is [button, sign, text] with sign the leading "+" or "-"   *)
(* of the typed text ("" when it starts with a digit).                     *)

AdminNt == <<"A", "d", "m", "i", "n", " ", "n", "t", ":", " ">>
AdminTimeoutNt ==
  <<"A", "d", "m", "i", "n", " ", "t", "i", "m", "e", "o", "u", "t", " ",
    "n", "t", ":", " ">>
AdminTimeoutReset ==
  <<"A", "d", "m", "i", "n", " ", "t", "i", "m", "e", "o", "u", "t", " ",
    "r", "e", "s", "e", "t">>

\* rowIndexFromSelection() does not throw
validSelection(s, rowIndex) ==
  ~(rowIndex < firstDataRowIndex \/ rowIndex > lastRow(s))

\* hoursFromInput: [err, ms]
hoursFromInput(answer) ==
  LET isNegative == answer.sign = "-"
      parsed == durationToDate(answer.text)
  IN IF answer.button # "OK" \/ (answer.sign = "" /\ answer.text.kind = "blank")
       THEN [err |-> "Operation canceled", ms |-> 0]
     ELSE IF ~parsed.ok THEN [err |-> "Invalid time input", ms |-> 0]
     ELSE [err |-> "none", ms |-> IF isNegative THEN -parsed.ms ELSE parsed.ms]

adminCheckIn(s, selection, answer, t) ==
  IF ~validSelection(s, selection) THEN Throw(s, "Invalid selection")
  ELSE IF RowAt(s, selection).checkIn # <<>>
    THEN IF answer.button # "OK" THEN Throw(s, "Operation canceled")
         ELSE LET r == checkOut(s, selection,
                                AdminNt \o formatMetadata(answer.text), t)
              IN IF r.err # "none" THEN r ELSE Ok(checkIn(r.s, selection, t))
    ELSE Ok(checkIn(s, selection, t))

\* adminCheckOut without the test of the check-in cell
adminCheckOutUnguarded(s, selection, answer, t) ==
  IF ~validSelection(s, selection) THEN Throw(s, "Invalid selection")
  ELSE checkOut(s, selection, AdminNt \o formatMetadata(answer.text), t)

adminCheckOut(s, selection, answer, t) ==
  IF ~validSelection(s, selection) THEN Throw(s, "Invalid selection")
  ELSE IF RowAt(s, selection).checkIn = <<>> THEN Throw(s, "not checked in")
  ELSE checkOut(s, selection, AdminNt \o formatMetadata(answer.text), t)

\* adminModifyHours that also checks the row out
adminModifyHoursChecksOut(s, selection, hours, answer, t) ==
  IF ~validSelection(s, selection) THEN Throw(s, "Invalid selection")
  ELSE LET id == RowAt(s, selection).address
           modifier == hoursFromInput(hours)
           r == addHours(s, indexOf(s, id), modifier.ms, adminStack,
                         AdminNt \o formatMetadata(answer.text), t)
       IN IF modifier.err # "none" THEN Throw(s, modifier.err)
          ELSE IF r.err # "none" THEN r
          ELSE Ok(SetRow(r.s, selection,
                         [RowAt(r.s, selection) EXCEPT !.checkIn = <<>>]))

adminModifyHours(s, selection, hours, answer, t) ==
  IF ~validSelection(s, selection) THEN Throw(s, "Invalid selection")
  ELSE LET id == RowAt(s, selection).address
           modifier == hoursFromInput(hours)
       IN IF modifier.err # "none" THEN Throw(s, modifier.err)
          ELSE addHours(s, indexOf(s, id), modifier.ms, adminStack,
                        AdminNt \o formatMetadata(answer.text), t)

\* checkInTimes.forEach over the values read before the loop
RECURSIVE forEachReset(_, _, _, _)
forEachReset(s, checkInTimes, i, t) ==
  IF i > Len(checkInTimes) THEN Ok(s)
  ELSE IF checkInTimes[i] = <<>> THEN forEachReset(s, checkInTimes, i + 1, t)
  ELSE LET val == checkInTimes[i][1]
           r == addHours(s, i - 1 + firstDataRowIndex, t - val,
                         timeDateFormatter(val), AdminTimeoutReset, t)
       IN IF r.err # "none" THEN r
          ELSE forEachReset(checkIn(r.s, i - 1 + firstDataRowIndex, t),
                            checkInTimes, i + 1, t)

\* adminResetTimeouts that also sets the timeout counter of the first row
\* back to 0
adminResetTimeoutsClears(s, t) ==
  LET r == forEachReset(s, [i \in 1..Len(s.rows) |-> s.rows[i].checkIn], 1, t)
  IN [r EXCEPT !.s = SetRow(r.s, firstDataRowIndex,
                            [RowAt(r.s, firstDataRowIndex) EXCEPT !.timeouts = 0])]

adminResetTimeouts(s, t) ==
  forEachReset(s, [i \in 1..Len(s.rows) |-> s.rows[i].checkIn], 1, t)

adminTimeoutMember(s, selection, answer, t) ==
  IF ~validSelection(s, selection) THEN Throw(s, "Invalid selection")
  ELSE IF RowAt(s, selection).checkIn = <<>> THEN Throw(s, "not checked in")
  ELSE LET r == addHours(s, selection, timeoutReturnTime,
                         timeDateFormatter(RowAt(s, selection).checkIn[1]),
                         AdminTimeoutNt \o formatMetadata(answer.text), t)
       IN IF r.err # "none" THEN r
          ELSE Ok(SetRow(r.s, selection,
                         [RowAt(r.s, selection) EXCEPT
                            !.checkIn = <<>>, !.timeouts = @ + 1]))

\* The later menu of src/menu.ts adds adminExemptFromWeek: the selected cell
\* gives the row and the week column (colIndexFromSelection: a column left
\* of the current week counts as the current week; column 1 here).
exemptionStack == [tag |-> "exemption", day |-> 0, time |-> 0]

adminExemptFromWeek(s, selection, column, hours, answer) ==
  IF ~validSelection(s, selection) THEN Throw(s, "Invalid selection")
  ELSE LET row == RowAt(s, selection)
           logCell == row.weeks[column]
           target == hoursFromInput(hours)
           time == durationToDate(logCell.val)
           entry == [amount |-> formatElapsedTime(target.ms),
                     from |-> exemptionStack,
                     for |-> formatMetadata(answer.text)]
       IN IF target.err # "none" THEN Throw(s, target.err)
          ELSE IF time.ok /\ time.ms >= target.ms
            THEN Throw(s, "Member has already exceeded this hour requirement")
          ELSE Ok(SetRow(s, selection,
                         [row EXCEPT !.weeks[column] =
                            Cell(formatElapsedTime(target.ms),
                                 <<entry>> \o logCell.note)]))

-----------------------------------------------------------------------------
(* src/functions.ts.  The custom function of the missed-hours column; it   *)
(* returns [s, err, ms, value]: the sheet after the call, the error thrown  *)
(* by durationToDate or "none", the requirement in ms and its text.         *)

Min(a, b) == IF a < b THEN a ELSE b

\* the for loop's body run without the multiplier
missedWeekSingle(requiredMS, deltaMS) ==
  IF deltaMS < 0 THEN requiredMS + (-deltaMS)
  ELSE IF requiredMS > 0 THEN requiredMS - Min(deltaMS, requiredMS)
  ELSE requiredMS

\* the for loop's body run without Math.min
missedWeekUncapped(requiredMS, deltaMS) ==
  IF deltaMS < 0 THEN requiredMS + (-deltaMS) * missedTimeMultiplier
  ELSE IF requiredMS > 0 THEN requiredMS - deltaMS
  ELSE requiredMS

\* the body of the for loop over the weeks of history
missedWeek(requiredMS, deltaMS) ==
  IF deltaMS < 0 THEN requiredMS + (-deltaMS) * missedTimeMultiplier
  ELSE IF requiredMS > 0 THEN requiredMS - Min(deltaMS, requiredMS)
  ELSE requiredMS

\* for (let col = weeks - 1; col > 0; col--): loggedTime[col] of the code is
\* loggedTime[col + 1] here
RECURSIVE missedLoop(_, _, _, _)
missedLoop(loggedTime, col, weeklyReqMS, requiredMS) ==
  IF col <= 0 THEN requiredMS
  ELSE missedLoop(loggedTime, col - 1, weeklyReqMS,
                  missedWeek(requiredMS,
                             durationToDate(loggedTime[col + 1]).ms - weeklyReqMS))

\* the decrement by the hours logged above the minimum in the current week
missedCurrent(requiredMS, currentLoggedAboveMin) ==
  IF currentLoggedAboveMin > 0
    THEN requiredMS - Min(currentLoggedAboveMin, requiredMS)
    ELSE requiredMS

\* getDisplayValues()[0] of the week cells of the row
RECURSIVE displayValues(_)
displayValues(cells) ==
  IF cells = <<>> THEN <<>> ELSE <<Head(cells).val>> \o displayValues(Tail(cells))

\* GET_MISSED_HOURS that stores its result in the requirement cell
GET_MISSED_HOURS_Writes(s, row) ==
  [s |-> SetRow(s, row, [RowAt(s, row) EXCEPT !.hourReq = Zero]),
   err |-> "none", ms |-> 0, value |-> Zero]

GET_MISSED_HOURS(s, row) ==
  LET weeklyReq == durationToDate(RowAt(s, row).hourReq)
      loggedTime == displayValues(RowAt(s, row).weeks)
      weeks == Len(loggedTime)
      requiredMS ==
        missedCurrent(missedLoop(loggedTime, weeks - 1, weeklyReq.ms, 0),
                      durationToDate(loggedTime[1]).ms - weeklyReq.ms)
  IN IF ~weeklyReq.ok \/ \E col \in 1..weeks : ~durationToDate(loggedTime[col]).ok
       THEN [s |-> s, err |-> "Invalid duration", ms |-> 0, value |-> Text]
       ELSE [s |-> s, err |-> "none", ms |-> requiredMS,
             value |-> formatElapsedTime(requiredMS)]

-----------------------------------------------------------------------------
(* Inputs *)

MetadataInputs == {<<"a", "\n", "b">>}
OkAnswer == [button |-> "OK", text |-> <<"f", "i", "x">>]
NoteAnswers == {OkAnswer, [button |-> "CANCEL", text |-> <<>>]}
CancelHours == [button |-> "CANCEL", sign |-> "", text |-> Blank]
HoursAnswers ==
  {[button |-> "OK", sign |-> "-", text |-> Dur(FALSE, 2, 0, 0)],
   [button |-> "OK", sign |-> "", text |-> Dur(FALSE, 2, 0, 0)],
   CancelHours}

\* The selected row and the answer to the notes prompt of adminCheckIn
\* (OK_CANCEL): every row with each answer, and the header row (not a valid
\* selection, nothing is asked).
Selected(s) ==
  ((firstDataRowIndex..lastRow(s)) \X NoteAnswers)
    \cup {<<firstDataRowIndex - 1, OkAnswer>>}

\* The selected row and the answer to a notes prompt that has the OK button
\* only.
SelectedOk(s) == {sel \in Selected(s) : sel[2] = OkAnswer}

\* For adminModifyHours also the answer to the hours prompt; the notes are
\* asked only when the hours are given.
SelectedHours(s) ==
  {<<sel[1], hours, sel[2]>> : sel \in SelectedOk(s), hours \in HoursAnswers \ {CancelHours}}
    \cup {<<rowIndex, CancelHours, OkAnswer>> : rowIndex \in firstDataRowIndex..lastRow(s)}

-----------------------------------------------------------------------------
(* The state machine: one action per trigger or menu item *)

Ran(op, row, address, input, elapsed, r) ==
  /\ nOps < MaxOps
  /\ sheet' = r.s
  /\ last' = [op |-> op, row |-> row, address |-> address, input |-> input,
              elapsed |-> elapsed, pre |-> sheet, err |-> r.err]
  /\ nOps' = nOps + 1
  /\ UNCHANGED now

\* The sheet as set up: the header of the first week's column and the row
\* of the first member.
FirstSheet ==
  [headers |-> <<0>>,
   rows |-> <<[NewRow("a1") EXCEPT !.weeks = <<Cell(Zero, <<>>)>>]>>]

\* The behaviours start at the first Monday 00:00, before or after one
\* member's first "In" form of the day.
InitSheets ==
  {FirstSheet}
    \cup {onFormSubmit(FirstSheet, address, "In", <<>>, 0).s : address \in Addresses}

Init ==
  /\ sheet \in InitSheets
  /\ now = 0
  /\ last = [op |-> "init", row |-> 0, address |-> "", input |-> "",
             elapsed |-> 0, pre |-> sheet, err |-> "none"]
  /\ nOps = 0

Tick ==
  /\ nOps < MaxOps
  /\ \E t \in Instants :
       /\ t > now
       /\ \A u \in Instants : u > now => t <= u
       /\ now' = t
  /\ last' = [op |-> "tick", row |-> 0, address |-> "", input |-> "",
              elapsed |-> 0, pre |-> sheet, err |-> "none"]
  /\ UNCHANGED <<sheet, nOps>>

FormSubmit ==
  \E address \in Addresses, input \in {"In", "Out"}, metadata \in MetadataInputs :
    Ran("onFormSubmit",
        indexOf(IF indexOf(sheet, address) = firstDataRowIndex - 1
                  THEN addMember(sheet, address) ELSE sheet, address),
        address, input, 0, onFormSubmit(sheet, address, input, metadata, now))

Sweep == Ran("updateTimeouts", 0, "", "", 0, updateTimeouts(sheet, now))

AdminCheckIn ==
  \E sel \in Selected(sheet) :
    Ran("adminCheckIn", sel[1], "", sel[2].button, 0,
        adminCheckIn(sheet, sel[1], sel[2], now))

AdminCheckOut ==
  \E sel \in SelectedOk(sheet) :
    Ran("adminCheckOut", sel[1], "", sel[2].button, 0,
        adminCheckOut(sheet, sel[1], sel[2], now))

AdminModifyHours ==
  \E sel \in SelectedHours(sheet) :
    Ran("adminModifyHours", sel[1], "", sel[2].button, hoursFromInput(sel[2]).ms,
        adminModifyHours(sheet, sel[1], sel[2], sel[3], now))

AdminResetTimeouts ==
  Ran("adminResetTimeouts", 0, "", "", 0, adminResetTimeouts(sheet, now))

AdminTimeoutMember ==
  \E sel \in SelectedOk(sheet) :
    Ran("adminTimeoutMember", sel[1], "", sel[2].button, 0,
        adminTimeoutMember(sheet, sel[1], sel[2], now))

Next ==
  \/ Tick
  \/ FormSubmit
  \/ Sweep
  \/ AdminCheckIn
  \/ AdminCheckOut
  \/ AdminModifyHours
  \/ AdminResetTimeouts
  \/ AdminTimeoutMember

Spec == Init /\ [][Next]_vars

-----------------------------------------------------------------------------
(* Vocabulary of the properties *)

HasRow(s, address) == indexOf(s, address) >= firstDataRowIndex
RowIndexes(s) == firstDataRowIndex..lastRow(s)
CheckedIn(row) == row.checkIn # <<>>
NegativeHours == "Cannot log a negative number of hours"

\* the Monday 00:00 of the week that contains t
MondayOf(t) == t - (t % weekMs)

\* a week cell holds no negative duration
NonNegative(cell) ==
  /\ cell.val.kind \in {"dur", "blank"}
  /\ ~cell.val.neg
  /\ LoggedMs(cell) >= 0

\* row q keeps every week entry of row p, after at most one new entry that
\* is zero with an empty annotation trail
KeepsWeeks(p, q) ==
  \/ q.weeks = p.weeks
  \/ q.weeks = <<Cell(Zero, <<>>)>> \o p.weeks

\* the handler that ran last was a form of an address that had a row
FormOfMember(input) ==
  /\ last.op = "onFormSubmit"
  /\ last.input = input
  /\ HasRow(last.pre, last.address)

\* the handler that ran last was adminModifyHours on a member's row with
\* the hours given: one call of addHours(row, last.elapsed, 'admin', notes)
ModifiedHours ==
  /\ last.op = "adminModifyHours"
  /\ last.input = "OK"
  /\ validSelection(last.pre, last.row)

-----------------------------------------------------------------------------
\* C1: checkOut(row, metadata) on a row whose check-in cell is empty is a
\* no-op: the sheet (logged durations, annotation trails, timeout counters,
\* headers, number of week columns) is unchanged, no annotation is added and
\* nothing is thrown; so is an "Out" form of a member who is checked out.
C1_CheckOutOfCheckedOutIsNoOp ==
  /\ \A rowIndex \in RowIndexes(sheet), metadata \in MetadataInputs :
       ~CheckedIn(RowAt(sheet, rowIndex))
         => checkOut(sheet, rowIndex, metadata, now) = Ok(sheet)
  /\ (FormOfMember("Out") /\ ~CheckedIn(RowAt(last.pre, last.row)))
       => sheet = last.pre /\ last.err = "none"

\* an "Out" form of a checked-out member, more than a week after the marker
C1_Witness ==
  /\ FormOfMember("Out")
  /\ ~CheckedIn(RowAt(last.pre, last.row))
  /\ now - currentWeekMarker(last.pre) > weekMs

ElapsedInputs == {-7200000, -timeoutReturnTime, -1, 0, timeoutReturnTime}

\* C3: addHours(row, elapsed, source, metadata) throws whenever the current
\* week's logged time plus elapsed is negative, for every row and every
\* elapsed; it then stores neither a zero nor a negative value: every week
\* entry the row had keeps its value and annotation, and no cell of the
\* sheet is negative.
C3_NegativeResultThrows ==
  /\ \A rowIndex \in RowIndexes(sheet), elapsed \in ElapsedInputs :
       LoggedMs(RowAt(sheet, rowIndex).weeks[1]) + elapsed < 0
         => \A r \in {addHours(sheet, rowIndex, elapsed, adminStack, <<>>, now)} :
              /\ r.err = NegativeHours
              /\ KeepsWeeks(RowAt(sheet, rowIndex), RowAt(r.s, rowIndex))
              /\ \A i \in RowIndexes(r.s), c \in 1..Len(r.s.headers) :
                   NonNegative(RowAt(r.s, i).weeks[c])
  /\ (ModifiedHours
        /\ LoggedMs(RowAt(last.pre, last.row).weeks[1]) + last.elapsed < 0)
       => /\ last.err = NegativeHours
          /\ KeepsWeeks(RowAt(last.pre, last.row), RowAt(sheet, last.row))

\* an admin took more hours off a row than its current week had logged
C3_Witness ==
  /\ ModifiedHours
  /\ LoggedMs(RowAt(last.pre, last.row).weeks[1]) > 0
  /\ LoggedMs(RowAt(last.pre, last.row).weeks[1]) + last.elapsed < 0
  /\ last.err = NegativeHours

\* C4: in every reachable state, after any forms, admin commands, sweeps
\* and week rollovers, the logged duration of every week cell of every row
\* is >= 0.
C4_LoggedNeverNegative ==
  \A rowIndex \in RowIndexes(sheet), c \in 1..Len(sheet.headers) :
    /\ Len(RowAt(sheet, rowIndex).weeks) = Len(sheet.headers)
    /\ NonNegative(RowAt(sheet, rowIndex).weeks[c])

\* an admin took hours off a row that had more logged, and off a row in
\* the sheet's second week
C4_Witness ==
  /\ ModifiedHours
  /\ last.elapsed < 0
  /\ last.err = "none"
  /\ LoggedMs(RowAt(sheet, last.row).weeks[1]) > 0
  /\ Len(sheet.headers) >= 2

\* C5: when addHours throws, nothing has been written: the sheet after the
\* call, headers and number of week columns included, is the sheet before
\* the call, also more than 7 days after the current-week marker.
C5_FailedAddHoursWritesNothing ==
  (ModifiedHours /\ last.err \in {NegativeHours, "Invalid duration"})
    => sheet = last.pre

\* the handler that ran last was a trigger or a menu item
RanHandler == last.op \notin {"init", "tick"}

\* the row was checked in for more than timeoutReq when the handler ran
Overdue(p) == CheckedIn(p) /\ now - p.checkIn[1] > timeoutReq

\* the current week's entry of row q as it was before the handler: the
\* entry of row p, or the new week's zero entry when a week was opened
EntryBefore(p, q) ==
  IF Len(q.weeks) > Len(p.weeks) THEN Cell(Zero, <<>>) ELSE p.weeks[1]

\* C6: a sweep at time now transitions a checked-in row only if now minus
\* its check-in time is > timeoutReq; every row with now - checkInTime <=
\* timeoutReq and every checked-out row keeps its check-in cell, its
\* timeout counter and, week by week, its logged durations and annotations
\* (a week the sweep opens adds its zero entry with no annotation to the row,
\* as to every row).
C6_SweepLeavesRowsWithinThreshold ==
  last.op = "updateTimeouts"
    => \A rowIndex \in RowIndexes(last.pre) :
         LET p == RowAt(last.pre, rowIndex)
             q == RowAt(sheet, rowIndex)
         IN (~CheckedIn(p) \/ now - p.checkIn[1] <= timeoutReq)
              => /\ q.address = p.address
                 /\ q.checkIn = p.checkIn
                 /\ q.timeouts = p.timeouts
                 /\ KeepsWeeks(p, q)
                 /\ totalHours(q) = totalHours(p)

\* a sweep found one row checked in for exactly timeoutReq and left it,
\* and timed another row out
C6_Witness ==
  /\ last.op = "updateTimeouts"
  /\ \E i \in RowIndexes(last.pre) :
       /\ CheckedIn(RowAt(last.pre, i))
       /\ now - RowAt(last.pre, i).checkIn[1] = timeoutReq
       /\ RowAt(sheet, i) = RowAt(last.pre, i)
  /\ \E j \in RowIndexes(last.pre) :
       RowAt(sheet, j).timeouts = RowAt(last.pre, j).timeouts + 1

\* row p timed out gives row q: checked out, one more timeout, exactly
\* timeoutReturnTime more in the current week and in total, one more
\* annotation, of 00:30:00
TimedOut(p, q) ==
  LET before == EntryBefore(p, q)
  IN /\ q.checkIn = <<>>
     /\ q.timeouts = p.timeouts + 1
     /\ LoggedMs(q.weeks[1]) = LoggedMs(before) + timeoutReturnTime
     /\ totalHours(q) = totalHours(p) + timeoutReturnTime
     /\ Len(q.weeks[1].note) = Len(before.note) + 1
     /\ q.weeks[1].note[Len(q.weeks[1].note)].amount = Dur(FALSE, 0, 30, 0)

\* C7: a timeout of a checked-in row, by the sweep or by adminTimeoutMember,
\* leaves the row checked out, adds exactly timeoutReturnTime (30 minutes)
\* to its current week whatever time has elapsed, and adds exactly 1 to its
\* timeout counter.
C7_TimeoutCreditsReturnTime ==
  /\ (last.op = "updateTimeouts" /\ last.err = "none")
       => \A rowIndex \in RowIndexes(last.pre) :
            Overdue(RowAt(last.pre, rowIndex))
              => TimedOut(RowAt(last.pre, rowIndex), RowAt(sheet, rowIndex))
  /\ (last.op = "adminTimeoutMember" /\ last.err = "none")
       => /\ CheckedIn(RowAt(last.pre, last.row))
          /\ TimedOut(RowAt(last.pre, last.row), RowAt(sheet, last.row))

\* a sweep timed out a row that had hours logged in the current week
C7_Witness ==
  /\ last.op = "updateTimeouts"
  /\ \E i \in RowIndexes(last.pre) :
       /\ Overdue(RowAt(last.pre, i))
       /\ LoggedMs(RowAt(last.pre, i).weeks[1]) > 0
       /\ RowAt(sheet, i).timeouts = 1

\* C8: the rollover check of addHours made twice in succession opens at
\* most one week: no handler, however many times it calls addHours, opens
\* more than one column, and once a column is opened the marker is the
\* Monday of the present week, so that a check at the same time or later
\* in that week opens none.
C8_SecondRolloverCheckOpensNoWeek ==
  RanHandler
    => /\ Len(sheet.headers) <= Len(last.pre.headers) + 1
       /\ Len(sheet.headers) > Len(last.pre.headers)
            => /\ currentWeekMarker(sheet) <= now
               /\ now - currentWeekMarker(sheet) <= weekMs
               /\ \A t \in Instants, rowIndex \in RowIndexes(sheet) :
                    (now <= t /\ t - currentWeekMarker(sheet) <= weekMs)
                      => addHours(sheet, rowIndex, 0, adminStack, <<>>, t).s.headers
                           = sheet.headers

\* a sweep called addHours for two rows and opened one week
C8_Witness ==
  /\ last.op = "updateTimeouts"
  /\ Len(sheet.headers) = Len(last.pre.headers) + 1
  /\ \A i \in RowIndexes(last.pre) :
       RowAt(sheet, i).timeouts = RowAt(last.pre, i).timeouts + 1
  /\ Len(sheet.rows) = 2

\* the number of annotations in the sheet
RECURSIVE NotesIn(_)
NotesIn(cells) ==
  IF cells = <<>> THEN 0 ELSE Len(Head(cells).note) + NotesIn(Tail(cells))

RECURSIVE Annotations(_)
Annotations(rows) ==
  IF rows = <<>> THEN 0 ELSE NotesIn(Head(rows).weeks) + Annotations(Tail(rows))

\* C9: an addHours call at a time now more than 7 days after the marker
\* first opens a week: the marker becomes the Monday 00:00 of the week of
\* now, every row gets a new first entry, zero with no annotation, and
\* the elapsed time of the call goes to the new entry of its row; at most 7
\* days after the marker no week is opened.  Stated for adminModifyHours
\* row by row, and for every handler: one that logs an annotation more than
\* 7 days after the marker has opened the week of now, and none opens a
\* week at most 7 days after the marker.
C9_AddHoursOpensTheWeekFirst ==
  /\ ModifiedHours
       => IF now - currentWeekMarker(last.pre) > weekMs
            THEN /\ sheet.headers = <<MondayOf(now)>> \o last.pre.headers
                 /\ \A i \in RowIndexes(last.pre) :
                      LET p == RowAt(last.pre, i)
                          q == RowAt(sheet, i)
                      IN /\ Tail(q.weeks) = p.weeks
                         /\ IF i = last.row /\ last.err = "none"
                              THEN /\ LoggedMs(q.weeks[1]) = last.elapsed
                                   /\ Len(q.weeks[1].note) = 1
                              ELSE q.weeks[1] = Cell(Zero, <<>>)
            ELSE /\ sheet.headers = last.pre.headers
                 /\ \A i \in RowIndexes(last.pre) :
                      Len(RowAt(sheet, i).weeks) = Len(RowAt(last.pre, i).weeks)
  /\ (RanHandler /\ now - currentWeekMarker(last.pre) <= weekMs)
       => sheet.headers = last.pre.headers
  /\ (RanHandler /\ now - currentWeekMarker(last.pre) > weekMs
        /\ Annotations(sheet.rows) > Annotations(last.pre.rows))
       => sheet.headers = <<MondayOf(now)>> \o last.pre.headers

\* an admin added hours on a Sunday, 13 days after the marker, in a sheet
\* of two rows
C9_Witness ==
  /\ ModifiedHours
  /\ last.err = "none"
  /\ getDay(now) = 0
  /\ now - currentWeekMarker(last.pre) > weekMs
  /\ Len(sheet.rows) = 2

\* C10: when two or more whole weeks have passed since the marker, one
\* addHours call opens exactly one week column, that of the present week;
\* the weeks in between get none.
C10_GapOfWeeksOpensOneWeek ==
  /\ (ModifiedHours /\ now - currentWeekMarker(last.pre) >= 2 * weekMs)
       => /\ Len(sheet.headers) = Len(last.pre.headers) + 1
          /\ sheet.headers[1] = MondayOf(now)
          /\ sheet.headers[2] = currentWeekMarker(last.pre)
  /\ (RanHandler /\ now - currentWeekMarker(last.pre) >= 2 * weekMs)
       => \A i \in RowIndexes(sheet) :
            /\ Len(sheet.headers) <= Len(last.pre.headers) + 1
            /\ Len(RowAt(sheet, i).weeks) = Len(sheet.headers)

\* an admin added hours more than two weeks after the marker
C10_Witness ==
  /\ ModifiedHours
  /\ last.err = "none"
  /\ now - currentWeekMarker(last.pre) > 2 * weekMs
  /\ MondayOf(now) - currentWeekMarker(last.pre) = 2 * weekMs

-----------------------------------------------------------------------------
(* The missed-hours column: GET_MISSED_HOURS recalculated on sheets of one  *)
(* row whose requirement and week cells hold any of a few durations (week   *)
(* cells are written by addHours and, like the requirement, can be edited   *)
(* by hand: onEdit only warns).                                             *)

MaxHistory == 3   \* week columns before the current week
MaxCalls == 2     \* recalculations in one behaviour

ReqInputs == {Dur(FALSE, 6, 0, 0), Dur(FALSE, 2, 30, 0), Zero}
LoggedInputs ==
  {Zero, Dur(FALSE, 2, 0, 0), Dur(FALSE, 6, 0, 0), Dur(FALSE, 9, 0, 0),
   Dur(TRUE, 1, 0, 0)}

RECURSIVE WeekCells(_)
WeekCells(n) ==
  IF n = 0 THEN {<<>>}
  ELSE {<<Cell(val, <<>>)>> \o cells : val \in LoggedInputs, cells \in WeekCells(n - 1)}

\* the headers of n week columns: the Mondays, the newest first
RECURSIVE WeekHeaders(_)
WeekHeaders(n) ==
  IF n = 0 THEN <<>> ELSE <<(n - 1) * weekMs>> \o WeekHeaders(n - 1)

MissedSheets ==
  {[headers |-> WeekHeaders(Len(cells)),
    rows |-> <<[NewRow("a1") EXCEPT !.hourReq = req, !.weeks = cells]>>] :
     req \in ReqInputs,
     cells \in UNION {WeekCells(n) : n \in 1..(MaxHistory + 1)}}

InitMissed ==
  /\ sheet \in MissedSheets
  /\ now = currentWeekMarker(sheet)
  /\ last = [op |-> "init", row |-> 0, pre |-> sheet, err |-> "none",
             ms |-> 0, value |-> Zero]
  /\ nOps = 0

\* the sheet recalculates the missed-hours cell of a row
Recalculate ==
  /\ nOps < MaxCalls
  /\ \E row \in firstDataRowIndex..lastRow(sheet) :
       LET r == GET_MISSED_HOURS(sheet, row)
       IN /\ sheet' = r.s
          /\ last' = [op |-> "GET_MISSED_HOURS", row |-> row, pre |-> sheet,
                      err |-> r.err, ms |-> r.ms, value |-> r.value]
  /\ nOps' = nOps + 1
  /\ UNCHANGED now

NextMissed == Recalculate

SpecMissed == InitMissed /\ [][NextMissed]_vars

\* the reference accrual, in ms: history is the logged time of the weeks
\* before the current one, the oldest first
RECURSIVE ReferenceWalk(_, _, _)
ReferenceWalk(history, requirement, debt) ==
  IF history = <<>> THEN debt
  ELSE ReferenceWalk(Tail(history), requirement,
         IF Head(history) < requirement
           THEN debt + 2 * (requirement - Head(history))
           ELSE debt - Min(Head(history) - requirement, debt))

RECURSIVE OldestFirst(_)
OldestFirst(cells) ==
  IF cells = <<>> THEN <<>>
  ELSE OldestFirst(Tail(cells)) \o <<durationSeconds(Head(cells).val) * 1000>>

ReferenceDebt(row) ==
  LET requirement == durationSeconds(row.hourReq) * 1000
      debt == ReferenceWalk(OldestFirst(Tail(row.weeks)), requirement, 0)
      surplus == durationSeconds(row.weeks[1].val) * 1000 - requirement
  IN IF surplus > 0 THEN debt - Min(surplus, debt) ELSE debt

Recalculated == last.op = "GET_MISSED_HOURS"

\* requirement 6:00:00, history 2:00:00, 6:00:00, 9:00:00 (the oldest
\* first), current week 0:00:00
ExampleRow(row) ==
  /\ row.hourReq = Dur(FALSE, 6, 0, 0)
  /\ displayValues(row.weeks)
       = <<Zero, Dur(FALSE, 9, 0, 0), Dur(FALSE, 6, 0, 0), Dur(FALSE, 2, 0, 0)>>

\* C11: GET_MISSED_HOURS(row) is the reference accrual for every weekly
\* log and requirement: walking the weeks before the current one from the
\* oldest to the newest, a week with logged < requirement adds
\* 2 * (requirement - logged) to the debt and any other week takes
\* min(logged - requirement, debt) off it; then a surplus of the current week
\* takes min(surplus, debt) off it.  The value returned is that debt as
\* H:M:S, and 05:00:00 for requirement 6:00:00, history 2:00:00, 6:00:00,
\* 9:00:00 and current week 0:00:00.
C11_MissedHoursIsReferenceAccrual ==
  Recalculated
    => LET row == RowAt(last.pre, last.row)
       IN /\ last.err = "none"
          /\ last.ms = ReferenceDebt(row)
          /\ last.value = formatElapsedTime(ReferenceDebt(row))
          /\ durationToDate(last.value).ms = ReferenceDebt(row)
          /\ ExampleRow(row) => last.value = Dur(FALSE, 5, 0, 0)

\* the function was recalculated for the row of the example
C11_Witness ==
  /\ Recalculated
  /\ ExampleRow(RowAt(last.pre, last.row))
  /\ last.value = Dur(FALSE, 5, 0, 0)

\* C12: the debt GET_MISSED_HOURS computes is >= 0 for every weekly log and
\* every requirement: the hours above the requirement, in the history or in
\* the current week, never take it below zero.
C12_MissedHoursNeverNegative ==
  /\ \A row \in RowIndexes(sheet) :
       /\ GET_MISSED_HOURS(sheet, row).ms >= 0
       /\ ~GET_MISSED_HOURS(sheet, row).value.neg
  /\ Recalculated => last.ms >= 0 /\ ~last.value.neg

\* a row whose hours above the requirement, in the history and in the
\* current week, are more than the debt of its first week
C12_Witness ==
  /\ Recalculated
  /\ last.ms = 0
  /\ LET row == RowAt(last.pre, last.row)
     IN /\ Len(row.weeks) = 3
        /\ row.hourReq = Dur(FALSE, 2, 30, 0)
        /\ displayValues(row.weeks)
             = <<Dur(FALSE, 6, 0, 0), Dur(FALSE, 9, 0, 0), Dur(FALSE, 2, 0, 0)>>

-----------------------------------------------------------------------------
(* The duration codec on its own: a duration of whole seconds is formatted  *)
(* by formatElapsedTime and the text parsed by durationToDate.  Durations   *)
(* are kept in seconds here: 744 hours in ms is beyond TLC's integers.      *)

HourInputs == {0, 1, 23, 24, 25, 743, 744, 745, 1000}
MinuteInputs == {0, 59}
SecondInputs == {0, 1, 59}
DurationInputs ==
  {h * 3600 + m * 60 + s : h \in HourInputs, m \in MinuteInputs, s \in SecondInputs}

InitCodec ==
  /\ sheet = FirstSheet
  /\ now = 0
  /\ nOps = 0
  /\ \E d \in DurationInputs :
       last = [op |-> "init", d |-> d, text |-> Zero, back |-> 0]

\* formatElapsedTime(new Date(d * 1000))
Format ==
  /\ last.op = "init"
  /\ last' = [last EXCEPT !.op = "formatElapsedTime",
                          !.text = formatSeconds(FALSE, last.d)]
  /\ UNCHANGED <<sheet, now, nOps>>

\* durationToDate of the text, in seconds; the text is of three numbers, so
\* nothing is thrown
Parse ==
  /\ last.op = "formatElapsedTime"
  /\ last.text.kind = "dur"
  /\ last' = [last EXCEPT !.op = "durationToDate",
                          !.back = durationSeconds(last.text)]
  /\ UNCHANGED <<sheet, now, nOps>>

NextCodec == Format \/ Parse

SpecCodec == InitCodec /\ [][NextCodec]_vars

\* C14 as stated: for every duration d of whole seconds, d >= 0, of any
\* number of hours (744 hours, 31 days, and more included),
\* durationToDate(formatElapsedTime(d)) = d.
C14_RoundTripOfEveryDuration ==
  last.op = "durationToDate" => last.back = last.d

-----------------------------------------------------------------------------
(* formatMetadata on its own, on every text of a few characters *)

MaxText == 3
Characters == {"a", "n", "N", "A", "/", " ", "\n", "\r"}

RECURSIVE TextsOf(_)
TextsOf(n) ==
  IF n = 0 THEN {<<>>}
  ELSE {<<c>> \o str : c \in Characters, str \in TextsOf(n - 1)}

MetadataTexts ==
  UNION {TextsOf(n) : n \in 0..MaxText}
    \cup {<<" ", "N", "/", "A", " ">>, <<"a", "\n", "b", "\r", "\n", "c">>}

InitMetadata ==
  /\ sheet = FirstSheet
  /\ now = 0
  /\ nOps = 0
  /\ \E text \in MetadataTexts :
       last = [op |-> "init", text |-> text, out |-> <<>>]

FormatMetadata ==
  /\ last.op = "init"
  /\ last' = [last EXCEPT !.op = "formatMetadata",
                          !.out = formatMetadata(last.text)]
  /\ UNCHANGED <<sheet, now, nOps>>

NextMetadata == FormatMetadata

SpecMetadata == InitMetadata /\ [][NextMetadata]_vars

\* the text without the white space before its first and after its last
\* character that is not white space
Trimmed(str) ==
  IF \A i \in 1..Len(str) : IsSpace(str[i]) THEN <<>>
  ELSE LET first == CHOOSE i \in 1..Len(str) :
                      ~IsSpace(str[i]) /\ \A k \in 1..(i - 1) : IsSpace(str[k])
           final == CHOOSE j \in 1..Len(str) :
                      ~IsSpace(str[j]) /\ \A k \in (j + 1)..Len(str) : IsSpace(str[k])
       IN SubSeq(str, first, final)

\* the lines of a text: a line ends at "\r\n", "\n" or "\r"
RECURSIVE SplitLines(_, _)
SplitLines(str, line) ==
  IF str = <<>> THEN <<line>>
  ELSE IF Len(str) >= 2 /\ str[1] = "\r" /\ str[2] = "\n"
    THEN <<line>> \o SplitLines(SubSeq(str, 3, Len(str)), <<>>)
  ELSE IF str[1] \in {"\n", "\r"}
    THEN <<line>> \o SplitLines(Tail(str), <<>>)
  ELSE SplitLines(Tail(str), line \o <<str[1]>>)

RECURSIVE JoinLines(_)
JoinLines(lines) ==
  IF Len(lines) = 1 THEN lines[1]
  ELSE lines[1] \o <<";", " ">> \o JoinLines(Tail(lines))

IsNA(str) ==
  /\ Len(str) = 3
  /\ str[1] \in {"n", "N"}
  /\ str[2] = "/"
  /\ str[3] \in {"a", "A"}

\* C15: formatMetadata trims its input; a text that is then empty or "n/a"
\* in any case gives "N/A"; any other gives the trimmed text with each line
\* break ("\n", "\r\n" or "\r") replaced by "; ".  "", "n/a" and " N/A "
\* give "N/A"; "a\nb\r\nc" gives "a; b; c".
C15_FormatMetadata ==
  last.op = "formatMetadata"
    => /\ IF Trimmed(last.text) = <<>> \/ IsNA(Trimmed(last.text))
            THEN last.out = <<"N", "/", "A">>
            ELSE /\ last.out = JoinLines(SplitLines(Trimmed(last.text), <<>>))
                 /\ \A i \in 1..Len(last.out) : last.out[i] \notin {"\n", "\r"}
       /\ last.text \in {<<>>, <<"n", "/", "a">>, <<" ", "N", "/", "A", " ">>}
            => last.out = <<"N", "/", "A">>
       /\ last.text = <<"a", "\n", "b", "\r", "\n", "c">>
            => last.out = <<"a", ";", " ", "b", ";", " ", "c">>

\* the text "a\nb\r\nc" was formatted
C15_Witness ==
  /\ last.op = "formatMetadata"
  /\ last.text = <<"a", "\n", "b", "\r", "\n", "c">>
  /\ last.out = <<"a", ";", " ", "b", ";", " ", "c">>

-----------------------------------------------------------------------------
(* Claims on the rows over every sequence of handlers (Spec) *)

\* the row of an address that has one
RowOf(s, address) == RowAt(s, indexOf(s, address))

\* the addresses that have a row
AddressesOf(s) == {s.rows[i].address : i \in 1..Len(s.rows)}

\* C16: the timeout counter of every row never goes down, whatever handler
\* runs (forms, the admin commands, adminResetTimeouts included, sweeps,
\* week rollovers); it goes up only by a timeout (the sweep or
\* adminTimeoutMember), by 1, of a row that was checked in; a new row starts
\* at 0.
C16_TimeoutCountNeverDecreases ==
  RanHandler
    => \A address \in AddressesOf(sheet) :
         LET q == RowOf(sheet, address)
         IN IF address \in AddressesOf(last.pre)
              THEN LET p == RowOf(last.pre, address)
                   IN /\ q.timeouts >= p.timeouts
                      /\ q.timeouts > p.timeouts
                           => /\ last.op \in {"updateTimeouts", "adminTimeoutMember"}
                              /\ q.timeouts = p.timeouts + 1
                              /\ CheckedIn(p)
                              /\ ~CheckedIn(q)
              ELSE q.timeouts = 0

\* a handler other than a timeout changed a row that had been timed out
C16_Witness ==
  /\ RanHandler
  /\ last.op \notin {"updateTimeouts", "adminTimeoutMember"}
  /\ \E address \in AddressesOf(last.pre) :
       /\ RowOf(last.pre, address).timeouts = 1
       /\ RowOf(sheet, address) # RowOf(last.pre, address)
       /\ RowOf(sheet, address).timeouts = 1

\* the number of rows of an address
RowCount(s, address) ==
  Cardinality({i \in 1..Len(s.rows) : s.rows[i].address = address})

\* C19: whatever handlers have run, no address has two rows and no row is
\* ever deleted; after a form submission ("In" or "Out") the submitting
\* address has exactly one row, which the submission added when (and only
\* when) the address had none; no other handler adds a row.
C19_OneRowPerSubmittingAddress ==
  /\ \A address \in Addresses : RowCount(sheet, address) <= 1
  /\ AddressesOf(sheet) \subseteq Addresses
  /\ RanHandler
       => /\ \A address \in AddressesOf(last.pre) : RowCount(sheet, address) = 1
          /\ IF last.op = "onFormSubmit"
               THEN /\ RowCount(sheet, last.address) = 1
                    /\ Len(sheet.rows) = Len(last.pre.rows)
                          + (IF RowCount(last.pre, last.address) = 0 THEN 1 ELSE 0)
               ELSE Len(sheet.rows) = Len(last.pre.rows)

\* an address whose row was added by its first form submits another form
\* while both addresses have a row
C19_Witness ==
  /\ last.op = "onFormSubmit"
  /\ last.address = "a2"
  /\ last.input = "Out"
  /\ RowCount(last.pre, "a2") = 1
  /\ Len(last.pre.rows) = 2
  /\ Len(sheet.rows) = 2

\* C22: adminCheckOut and adminTimeoutMember on a row that is not checked in
\* throw 'Member ... is not checked in' and leave the sheet as it was: no
\* hours logged, no annotation, no timeout counted, no week opened (also
\* when the marker is more than 7 days old).
C22_AdminOnCheckedOutRowThrows ==
  (/\ last.op \in {"adminCheckOut", "adminTimeoutMember"}
   /\ validSelection(last.pre, last.row)
   /\ ~CheckedIn(RowAt(last.pre, last.row)))
    => /\ last.err = "not checked in"
       /\ sheet = last.pre

\* adminTimeoutMember on a checked-out row more than 7 days after the marker
C22_Witness ==
  /\ last.op = "adminTimeoutMember"
  /\ validSelection(last.pre, last.row)
  /\ ~CheckedIn(RowAt(last.pre, last.row))
  /\ now - currentWeekMarker(last.pre) > weekMs
  /\ last.err = "not checked in"

\* the handler that ran last was one successful checkOut(row, metadata) of a
\* checked-in row and nothing else: an "Out" form of a member, or
\* adminCheckOut
CheckedOut ==
  /\ \/ FormOfMember("Out")
     \/ last.op = "adminCheckOut" /\ validSelection(last.pre, last.row)
  /\ CheckedIn(RowAt(last.pre, last.row))
  /\ last.err = "none"

\* the effect of checkOut on the rows, with `credit` added to the current
\* week of the row (after the week's zero entry when the call opened a week)
CheckOutLogs(credit) ==
  LET p == RowAt(last.pre, last.row)
      q == RowAt(sheet, last.row)
      before == EntryBefore(p, q)
      n == Len(q.weeks[1].note)
  IN /\ q.address = p.address
     /\ LoggedMs(q.weeks[1]) = LoggedMs(before) + credit
     /\ totalHours(q) = totalHours(p) + credit
     /\ n = Len(before.note) + 1
     /\ SubSeq(q.weeks[1].note, 1, n - 1) = before.note
     /\ q.weeks[1].note[n].from = timeDateFormatter(p.checkIn[1])
     /\ Tail(q.weeks) = (IF Len(q.weeks) > Len(p.weeks) THEN p.weeks ELSE Tail(p.weeks))
     /\ q.checkIn = <<>>
     /\ q.timeouts = p.timeouts
     /\ \A i \in RowIndexes(last.pre) \ {last.row} :
          /\ RowAt(sheet, i).address = RowAt(last.pre, i).address
          /\ RowAt(sheet, i).checkIn = RowAt(last.pre, i).checkIn
          /\ RowAt(sheet, i).timeouts = RowAt(last.pre, i).timeouts
          /\ KeepsWeeks(RowAt(last.pre, i), RowAt(sheet, i))
     /\ Len(sheet.rows) = Len(last.pre.rows)

\* C23 (as stated): a successful checkOut at time now of a checked-in row
\* adds exactly now - checkInTime to the current week's logged duration,
\* appends one entry from "checkin <check-in time>", clears the check-in
\* time and leaves the timeout counter and every other row unchanged.
C23_CheckOutLogsElapsedExactly ==
  CheckedOut
    => CheckOutLogs(now - RowAt(last.pre, last.row).checkIn[1])

\* C23: the same with the credit that the cell can hold: now - checkInTime
\* cut down to whole seconds (the cell is written as HH:MM:SS).
C23_CheckOutLogsElapsedSeconds ==
  CheckedOut
    => CheckOutLogs(((now - RowAt(last.pre, last.row).checkIn[1]) \div 1000) * 1000)

\* a check-out, a number of seconds and a half after the check-in, of one
\* of two rows
C23_Witness ==
  /\ CheckedOut
  /\ (now - RowAt(last.pre, last.row).checkIn[1]) % 1000 = 500
  /\ now - RowAt(last.pre, last.row).checkIn[1] > 1000
  /\ Len(sheet.rows) = 2

\* C24: the check-in cell of a row holds at most one time, and the row is
\* checked in exactly when it holds one; after a successful "In" form the
\* row of the submitting address is checked in with the time of the
\* processing, after a successful "Out" form it is checked out, whether the
\* row was checked in, checked out or did not exist before.
C24_CheckInTimeFollowsTheForm ==
  /\ \A i \in RowIndexes(sheet) :
       /\ Len(RowAt(sheet, i).checkIn) <= 1
       /\ \A k \in 1..Len(RowAt(sheet, i).checkIn) :
            RowAt(sheet, i).checkIn[k] \in 0..now
  /\ (last.op = "onFormSubmit" /\ last.err = "none")
       => /\ HasRow(sheet, last.address)
          /\ IF last.input = "In"
               THEN RowOf(sheet, last.address).checkIn = <<now>>
               ELSE RowOf(sheet, last.address).checkIn = <<>>

\* an "In" form of a row that was checked in at an earlier time
C24_Witness ==
  /\ FormOfMember("In")
  /\ last.err = "none"
  /\ CheckedIn(RowOf(last.pre, last.address))
  /\ RowOf(last.pre, last.address).checkIn[1] < now
  /\ RowOf(sheet, last.address).checkIn = <<now>>

\* row q is row p as a sweep leaves a row that it skips: same check-in
\* cell, timeout counter, logged durations and annotations (a week the
\* sweep opens adds its zero entry)
Skipped(p, q) ==
  /\ q.checkIn = p.checkIn
  /\ q.timeouts = p.timeouts
  /\ KeepsWeeks(p, q)
  /\ totalHours(q) = totalHours(p)

\* the instants from now on
LaterInstants == {t \in Instants : t >= now}

\* the addresses of the rows that the handler that ran last has timed out
JustTimedOut ==
  {address \in AddressesOf(sheet) :
     /\ RanHandler
     /\ address \in AddressesOf(last.pre)
     /\ RowOf(sheet, address).timeouts > RowOf(last.pre, address).timeouts}

\* C25: a row that a handler (the sweep or adminTimeoutMember) has just
\* timed out is not checked in, and a sweep that follows, whenever it runs,
\* and a second sweep after it leave the row as it is; the timeout return
\* is credited once and the timeout counter rises once per check-in.
C25_RepeatedSweepsSkipTimedOutRows ==
  JustTimedOut # {}
    => \A t \in LaterInstants :
         \A r \in {updateTimeouts(sheet, t)} :
           /\ r.err = "none"
           /\ \A address \in JustTimedOut :
                /\ ~CheckedIn(RowOf(sheet, address))
                /\ Skipped(RowOf(sheet, address), RowOf(r.s, address))
                /\ \A u \in {v \in LaterInstants : v >= t} :
                     Skipped(RowOf(r.s, address),
                             RowOf(updateTimeouts(r.s, u).s, address))

\* a sweep has timed out one row and another row is still checked in, to
\* be timed out by a later sweep
C25_Witness ==
  /\ last.op = "updateTimeouts"
  /\ \E address \in AddressesOf(last.pre) :
       /\ RowOf(sheet, address).timeouts = RowOf(last.pre, address).timeouts + 1
       /\ \E other \in AddressesOf(sheet) \ {address} :
            /\ CheckedIn(RowOf(sheet, other))
            /\ \E t \in LaterInstants : timeoutCheck(sheet, t) # <<>>

\* C30: adminModifyHours with the hours given is accepted whether the
\* selected row is checked in or not (it fails only when the result would
\* be negative); when it succeeds, the signed duration is added to the
\* current week of the selected row and one entry from "admin" is appended
\* to that week's annotations; the row's check-in time and timeout counter,
\* its earlier weeks and every other row are unchanged (a week opened by
\* the call adds its zero entry to every row).
C30_AdminCorrectionChangesOneEntry ==
  ModifiedHours
    => LET p == RowAt(last.pre, last.row)
           rolled == now - currentWeekMarker(last.pre) > weekMs
           logged == IF rolled THEN 0 ELSE LoggedMs(p.weeks[1])
       IN /\ last.err = (IF logged + last.elapsed < 0 THEN NegativeHours ELSE "none")
          /\ last.err = "none"
               => LET q == RowAt(sheet, last.row)
                      before == EntryBefore(p, q)
                      n == Len(q.weeks[1].note)
                  IN /\ q.address = p.address
                     /\ q.checkIn = p.checkIn
                     /\ q.timeouts = p.timeouts
                     /\ Len(q.weeks) = Len(p.weeks) + (IF rolled THEN 1 ELSE 0)
                     /\ LoggedMs(q.weeks[1]) = LoggedMs(before) + last.elapsed
                     /\ n = Len(before.note) + 1
                     /\ SubSeq(q.weeks[1].note, 1, n - 1) = before.note
                     /\ q.weeks[1].note[n].from = adminStack
                     /\ Tail(q.weeks) = (IF rolled THEN p.weeks ELSE Tail(p.weeks))
                     /\ \A i \in RowIndexes(last.pre) \ {last.row} :
                          /\ RowAt(sheet, i).address = RowAt(last.pre, i).address
                          /\ RowAt(sheet, i).checkIn = RowAt(last.pre, i).checkIn
                          /\ RowAt(sheet, i).timeouts = RowAt(last.pre, i).timeouts
                          /\ KeepsWeeks(RowAt(last.pre, i), RowAt(sheet, i))
                     /\ Len(sheet.rows) = Len(last.pre.rows)

\* a negative correction of a checked-in row that had hours logged
C30_Witness ==
  /\ ModifiedHours
  /\ last.err = "none"
  /\ last.elapsed < 0
  /\ CheckedIn(RowAt(last.pre, last.row))
  /\ RowAt(sheet, last.row).checkIn = RowAt(last.pre, last.row).checkIn

\* C37: in every reachable state GET_MISSED_HOURS(row) returns a duration
\* for every row and throws nothing, also for a row that addMember created
\* when columns of earlier weeks exist.
C37_MissedHoursNeverFails ==
  \A row \in RowIndexes(sheet) :
    /\ GET_MISSED_HOURS(sheet, row).err = "none"
    /\ GET_MISSED_HOURS(sheet, row).value.kind = "dur"

-----------------------------------------------------------------------------
(* The handlers of Spec with the menu item 'Exempt selected cell' *)

\* the selected cell (row and week column) and the answers to the prompts
\* for the target hours and for the notes (OK only)
SelectedCells(s) ==
  {<<sel[1], column, sel[2], sel[3]>> :
     sel \in SelectedHours(s), column \in 1..Len(s.headers)}

AdminExemptFromWeek ==
  \E sel \in SelectedCells(sheet) :
    Ran("adminExemptFromWeek", sel[1], "", sel[3].button, hoursFromInput(sel[3]).ms,
        adminExemptFromWeek(sheet, sel[1], sel[2], sel[3], sel[4]))

NextExempt == Next \/ AdminExemptFromWeek

SpecExempt == Init /\ [][NextExempt]_vars

\* the number of week entries a row gained
Opened(p, q) == Len(q.weeks) - Len(p.weeks)

\* C17: no week entry is ever deleted and, once a newer week is opened, the
\* duration and the annotation of every earlier week's entry are never
\* changed by any handler, adminModifyHours and adminExemptFromWeek
\* included: only the current week's entry is amended.
C17_HistoryIsNeverChanged ==
  RanHandler
    => \A address \in AddressesOf(last.pre) :
         /\ address \in AddressesOf(sheet)
         /\ LET p == RowOf(last.pre, address)
                q == RowOf(sheet, address)
            IN /\ Opened(p, q) >= 0
               /\ \A c \in 1..Len(p.weeks) :
                    (c >= 2 \/ Opened(p, q) >= 1)
                      => q.weeks[c + Opened(p, q)] = p.weeks[c]

\* s is a prefix of t
IsPrefix(s, t) == Len(s) <= Len(t) /\ SubSeq(t, 1, Len(s)) = s

\* C18: the annotation trail of every week cell is append-only, the newest
\* entry last: every handler that writes an annotation (addHours from a
\* check-out, a timeout or an admin correction, and adminExemptFromWeek)
\* leaves the trail the cell had as an unchanged prefix and puts its entry
\* after it.
C18_AnnotationsAreAppended ==
  RanHandler
    => \A address \in AddressesOf(last.pre) :
         /\ address \in AddressesOf(sheet)
         /\ LET p == RowOf(last.pre, address)
                q == RowOf(sheet, address)
            IN /\ Opened(p, q) >= 0
               /\ \A c \in 1..Len(p.weeks) :
                    IsPrefix(p.weeks[c].note, q.weeks[c + Opened(p, q)].note)


-----------------------------------------------------------------------------
(* The handlers of Spec with the dismissal of a notes prompt that has the  *)
(* OK button only (src/menu.ts: 'Check out notes', 'Modification notes',   *)
(* 'Timeout notes').  The close button of the dialog gives the button      *)
(* CLOSE; the command reads getResponseText() without looking at it.       *)

DismissAnswer == [button |-> "CLOSE", text |-> <<>>]

AdminCheckOutDismissed ==
  \E rowIndex \in firstDataRowIndex..lastRow(sheet) :
    Ran("adminCheckOut", rowIndex, "", DismissAnswer.button, 0,
        adminCheckOut(sheet, rowIndex, DismissAnswer, now))

AdminModifyHoursDismissed ==
  \E rowIndex \in firstDataRowIndex..lastRow(sheet),
     hours \in HoursAnswers \ {CancelHours} :
    Ran("adminModifyHours", rowIndex, "", DismissAnswer.button,
        hoursFromInput(hours).ms,
        adminModifyHours(sheet, rowIndex, hours, DismissAnswer, now))

AdminTimeoutMemberDismissed ==
  \E rowIndex \in firstDataRowIndex..lastRow(sheet) :
    Ran("adminTimeoutMember", rowIndex, "", DismissAnswer.button, 0,
        adminTimeoutMember(sheet, rowIndex, DismissAnswer, now))

NextPrompts ==
  \/ Next
  \/ AdminCheckOutDismissed
  \/ AdminModifyHoursDismissed
  \/ AdminTimeoutMemberDismissed

SpecPrompts == Init /\ [][NextPrompts]_vars

\* a prompt of the command that ran was asked and answered with Cancel or
\* closed (adminCheckIn asks only when the row is checked in, adminCheckOut
\* and adminTimeoutMember likewise)
PromptCanceled ==
  /\ last.op \in {"adminCheckIn", "adminCheckOut", "adminModifyHours",
                  "adminTimeoutMember"}
  /\ last.input \in {"CANCEL", "CLOSE"}
  /\ validSelection(last.pre, last.row)
  /\ last.op # "adminModifyHours" => CheckedIn(RowAt(last.pre, last.row))

\* C20: when a prompt of adminCheckIn (on a checked-in row), adminCheckOut,
\* adminModifyHours or adminTimeoutMember is cancelled or dismissed, the
\* command throws and the sheet (logged durations, annotations, check-in
\* times, timeout counters, week columns) is as it was before the command.
C20_CanceledPromptAbortsWithoutWrite ==
  PromptCanceled
    => /\ sheet = last.pre
       /\ last.err # "none"

-----------------------------------------------------------------------------
(* Sweeps over a sheet in which week cells were edited by hand: onEdit     *)
(* (src/main.ts) only shows an alert, the edit stays.  Both members have a *)
(* row; each is checked in at the first instant or not, and the cell of    *)
(* the current week of each holds a duration or some other text.           *)

BothRows == addMember(FirstSheet, "a2")

EditedRows(row) ==
  {[row EXCEPT !.checkIn = checkInTime, !.weeks = <<Cell(val, <<>>)>>] :
     checkInTime \in {<<>>, <<0>>}, val \in {Zero, Text}}

EditedSheets ==
  {[BothRows EXCEPT !.rows = <<first, second>>] :
     first \in EditedRows(BothRows.rows[1]),
     second \in EditedRows(BothRows.rows[2])}

InitEdited ==
  /\ sheet \in EditedSheets
  /\ now = 0
  /\ last = [op |-> "init", row |-> 0, address |-> "", input |-> "",
             elapsed |-> 0, pre |-> sheet, err |-> "none"]
  /\ nOps = 0

NextEdited == Tick \/ FormSubmit \/ Sweep

SpecEdited == InitEdited /\ [][NextEdited]_vars

\* C29: in a sweep, every overdue row whose own timeout succeeds (its
\* current-week cell holds a duration) is timed out, also when the timeout
\* of another overdue row of the same sweep fails.
C29_SweepTimesOutEveryOverdueRow ==
  last.op = "updateTimeouts"
    => \A rowIndex \in RowIndexes(last.pre) :
         (/\ Overdue(RowAt(last.pre, rowIndex))
          /\ timeout(last.pre, rowIndex, now).err = "none")
           => /\ RowAt(sheet, rowIndex).checkIn = <<>>
              /\ RowAt(sheet, rowIndex).timeouts
                   = RowAt(last.pre, rowIndex).timeouts + 1

-----------------------------------------------------------------------------
(* addHours called by two triggers that run at the same time.  Each call   *)
(* goes through the steps of addHours: the comparison of the marker with   *)
(* Date.now(), startWeek() when more than a week has passed, and the       *)
(* logging.  The steps of the two calls interleave; `last` holds, for each *)
(* trigger, the position of its call and what it has read, and whether     *)
(* calls have overlapped.                                                  *)

MaxAddHours == 3
Triggers == {"t1", "t2"}
ElapsedOfCalls == {timeoutReturnTime, 2 * 3600000}

IdleCall == [pc |-> "idle", rowIndex |-> 0, elapsed |-> 0, opens |-> FALSE]

InitRollover ==
  /\ sheet = BothRows
  /\ now = 0
  /\ last = [calls |-> [p \in Triggers |-> IdleCall],
             interleaved |-> FALSE, overlapped |-> FALSE]
  /\ nOps = 0

\* Date.now() moves on
Pass ==
  /\ \E t \in Instants :
       /\ t > now
       /\ \A u \in Instants : u > now => t <= u
       /\ now' = t
  /\ UNCHANGED <<sheet, last, nOps>>

\* a trigger calls addHours(rowIndex, elapsed, ...): the marker is read and
\* compared with Date.now()
Compare(p) ==
  /\ nOps < MaxAddHours
  /\ last.calls[p].pc = "idle"
  /\ \E rowIndex \in RowIndexes(sheet), elapsed \in ElapsedOfCalls :
       last' = [last EXCEPT
                  !.calls[p] = [pc |-> "compared", rowIndex |-> rowIndex,
                                elapsed |-> elapsed,
                                opens |-> now - currentWeekMarker(sheet) > weekMs],
                  !.interleaved = @ \/ \E q \in Triggers \ {p} :
                                         last.calls[q].pc # "idle"]
  /\ nOps' = nOps + 1
  /\ UNCHANGED <<sheet, now>>

\* startWeek() of a call that found the marker more than a week old
StartWeek(p) ==
  /\ last.calls[p].pc = "compared"
  /\ last.calls[p].opens
  /\ sheet' = startWeek(sheet, now)
  /\ last' = [last EXCEPT
                !.calls[p].pc = "opened",
                !.overlapped = @ \/ \E q \in Triggers \ {p} :
                                      /\ last.calls[q].pc = "compared"
                                      /\ last.calls[q].opens]
  /\ UNCHANGED <<now, nOps>>

\* the rest of the call: the logged time is read, added to and written
LogHours(p) ==
  /\ \/ last.calls[p].pc = "opened"
     \/ last.calls[p].pc = "compared" /\ ~last.calls[p].opens
  /\ sheet' = logHours(sheet, last.calls[p].rowIndex, last.calls[p].elapsed,
                       adminStack, <<>>).s
  /\ last' = [last EXCEPT !.calls[p] = IdleCall]
  /\ UNCHANGED <<now, nOps>>

NextRollover ==
  \/ Pass
  \/ \E p \in Triggers : Compare(p)
  \/ \E p \in Triggers : StartWeek(p)
  \/ \E p \in Triggers : LogHours(p)

SpecRollover == InitRollover /\ [][NextRollover]_vars

\* two week columns carry the same week label
DuplicateWeek ==
  \E i, j \in 1..Len(sheet.headers) : i # j /\ sheet.headers[i] = sheet.headers[j]

\* C27: two week columns with the same label exist only after two calls of
\* addHours overlapped so that both had compared the marker before either
\* inserted its column (and such a state is reached); as long as the calls
\* run one after the other, no two week columns carry the same label.
C27_DuplicateWeekOnlyByOverlap ==
  /\ DuplicateWeek => last.overlapped
  /\ ~last.interleaved => ~DuplicateWeek
  /\ last.overlapped => last.interleaved

\* both calls compared the marker before either inserted its column, and
\* both inserted one: two columns of the same week
C27_Witness ==
  /\ DuplicateWeek
  /\ last.overlapped
  /\ \A p \in Triggers : last.calls[p].pc = "idle"

-----------------------------------------------------------------------------
(* Triggers that run at the same time: a form submission, the sweep and    *)
(* adminResetTimeouts each read the sheet first (the members and the row   *)
(* index of the address; the row indexes to time out; the check-in times)  *)
(* and write afterwards, row by row, with what they read.  No lock is      *)
(* taken, so the steps of different triggers interleave.  `last` holds the *)
(* step made last with the sheet before it, and what each running trigger  *)
(* has read.                                                               *)

MaxTriggers == 3

IdleForm == [pc |-> "idle", input |-> "", index |-> 0]
IdleSweep == [pending |-> <<>>, collected |-> {}, disturbed |-> FALSE]
IdleReset == [times |-> <<>>, i |-> 1]

InitConcurrent ==
  /\ sheet \in InitSheets
  /\ now = 0
  /\ last = [op |-> "init", row |-> 0, address |-> "", val |-> <<>>,
             pre |-> sheet, form |-> [a \in Addresses |-> IdleForm],
             sweep |-> IdleSweep, reset |-> IdleReset]
  /\ nOps = 0

\* a step of a trigger: the sheet after it and what the triggers hold
Stepped(op, row, address, val, s, form, sweep, reset) ==
  /\ sheet' = s
  /\ last' = [op |-> op, row |-> row, address |-> address, val |-> val,
              pre |-> sheet, form |-> form, sweep |-> sweep, reset |-> reset]
  /\ UNCHANGED now

\* onFormSubmit up to the row index: updateVars(), members.indexOf(address),
\* addMember(address) for a new address
FormLookup(address) ==
  /\ nOps < MaxTriggers
  /\ last.form[address].pc = "idle"
  /\ \E input \in {"In", "Out"} :
       LET s1 == IF indexOf(sheet, address) = firstDataRowIndex - 1
                   THEN addMember(sheet, address) ELSE sheet
       IN Stepped("formLookup", indexOf(s1, address), address, <<>>, s1,
                  [last.form EXCEPT ![address] =
                     [pc |-> "found", input |-> input,
                      index |-> indexOf(s1, address)]],
                  last.sweep, last.reset)
  /\ nOps' = nOps + 1

\* checkOut(index + firstDataRowIndex, metadata) and, for 'In',
\* checkIn(index + firstDataRowIndex), with the index found before
formApply(s, rowIndex, input, metadata, t) ==
  LET r == checkOut(s, rowIndex, metadata, t)
  IN IF r.err # "none" THEN r
     ELSE IF input = "In" THEN Ok(checkIn(r.s, rowIndex, t))
     ELSE r

FormApply(address) ==
  /\ last.form[address].pc = "found"
  /\ \E metadata \in MetadataInputs :
       Stepped("formApply", last.form[address].index, address, <<>>,
               formApply(sheet, last.form[address].index,
                         last.form[address].input, metadata, now).s,
               [last.form EXCEPT ![address] = IdleForm],
               [last.sweep EXCEPT !.disturbed =
                  @ \/ address \in last.sweep.collected],
               last.reset)
  /\ UNCHANGED nOps

\* timeoutCheck(): the row indexes of the rows checked in for too long
SweepCheck ==
  /\ nOps < MaxTriggers
  /\ last.sweep.pending = <<>>
  /\ LET rowIndexes == timeoutCheck(sheet, now)
     IN Stepped("sweepCheck", 0, "", <<>>, sheet, last.form,
                [pending |-> rowIndexes,
                 collected |-> {RowAt(sheet, rowIndexes[k]).address :
                                  k \in 1..Len(rowIndexes)},
                 disturbed |-> FALSE],
                last.reset)
  /\ nOps' = nOps + 1

\* timeout(rowIndex) for the next row index of the list; a throw ends the
\* sweep
SweepTimeout ==
  /\ last.sweep.pending # <<>>
  /\ LET rowIndex == Head(last.sweep.pending)
         r == timeout(sheet, rowIndex, now)
     IN Stepped("sweepTimeout", rowIndex, "", <<>>, r.s, last.form,
                [last.sweep EXCEPT
                   !.pending = IF r.err # "none" THEN <<>> ELSE Tail(@)],
                last.reset)
  /\ UNCHANGED nOps

\* adminResetTimeouts up to the loop: the check-in times, read at once
ResetRead ==
  /\ nOps < MaxTriggers
  /\ last.reset.i > Len(last.reset.times)
  /\ LET n == Len(sheet.rows)
     IN Stepped("resetRead", 0, "", <<>>, sheet, last.form, last.sweep,
                [times |-> [i \in 1..n |-> sheet.rows[i].checkIn], i |-> 1])
  /\ nOps' = nOps + 1

\* one turn of checkInTimes.forEach((val, i) => ...): for a val that is not
\* blank, addHours with the time since val and checkIn; a throw ends the
\* loop
resetRow(s, val, rowIndex, t) ==
  IF val = <<>> THEN Ok(s)
  ELSE LET r == addHours(s, rowIndex, t - val[1], timeDateFormatter(val[1]),
                         AdminTimeoutReset, t)
       IN IF r.err # "none" THEN r ELSE Ok(checkIn(r.s, rowIndex, t))

ResetRow ==
  /\ last.reset.i <= Len(last.reset.times)
  /\ LET val == last.reset.times[last.reset.i]
         rowIndex == last.reset.i - 1 + firstDataRowIndex
         r == resetRow(sheet, val, rowIndex, now)
     IN Stepped("resetRow", rowIndex, "", val, r.s, last.form, last.sweep,
                IF r.err # "none" THEN IdleReset
                ELSE [last.reset EXCEPT !.i = @ + 1])
  /\ UNCHANGED nOps

\* Date.now() moves on, within the first week (the sums of the credits stay
\* below 2^31 ms)
PassInWeek ==
  /\ \E t \in Instants :
       /\ t > now
       /\ t < weekMs
       /\ \A u \in Instants : u > now => t <= u
       /\ now' = t
  /\ UNCHANGED <<sheet, last, nOps>>

NextConcurrent ==
  \/ PassInWeek
  \/ \E address \in Addresses : FormLookup(address)
  \/ \E address \in Addresses : FormApply(address)
  \/ SweepCheck
  \/ SweepTimeout
  \/ ResetRead
  \/ ResetRow

SpecConcurrent == InitConcurrent /\ [][NextConcurrent]_vars

\* the step made last changed the check-in time, the logged duration or
\* the timeout counter of the row at rowIndex
Changed(rowIndex) ==
  LET p == RowAt(last.pre, rowIndex)
      q == RowAt(sheet, rowIndex)
  IN \/ q.checkIn # p.checkIn
     \/ q.timeouts # p.timeouts
     \/ totalHours(q) # totalHours(p)

\* C21: a sweep between whose steps only forms of other addresses (than
\* those of the rows it collected) were handled, a form that adds a row
\* included, changes the check-in time, the logged duration or the timeout
\* counter only of rows that it collected and that are checked in for more
\* than timeoutReq.
C21_InterleavedSweepTimesOutOverdueRowsOnly ==
  (last.op = "sweepTimeout" /\ ~last.sweep.disturbed)
    => \A rowIndex \in RowIndexes(last.pre) :
         Changed(rowIndex)
           => /\ Overdue(RowAt(last.pre, rowIndex))
              /\ RowAt(last.pre, rowIndex).address \in last.sweep.collected

\* C26: adminResetTimeouts credits and re-checks-in a row, and the sweep
\* times out a row, on the check-in time that the row holds when it is
\* processed: a row is changed by a turn of adminResetTimeouts only if the
\* check-in time read for it at the start is the one it holds, and by a
\* timeout of the sweep only if the check-in time it holds is more than
\* timeoutReq old.
C26_WritesUseTheStoredCheckInTime ==
  /\ last.op = "resetRow"
       => (Changed(last.row) => RowAt(last.pre, last.row).checkIn = last.val)
  /\ last.op = "sweepTimeout"
       => (Changed(last.row) => Overdue(RowAt(last.pre, last.row)))

\* C28: when the forms of two addresses interleave, a form that adds a row
\* included, the check-out credit and the check-in time of a submission are
\* written to the row of the submitted address and to no other row.
C28_FormWritesToTheRowOfItsAddress ==
  last.op = "formApply"
    => /\ RowAt(last.pre, last.row).address = last.address
       /\ \A rowIndex \in RowIndexes(last.pre) :
            Changed(rowIndex) => RowAt(last.pre, rowIndex).address = last.address

-----------------------------------------------------------------------------
(* The handlers of Spec with the adminCheckIn that asks for the member's   *)
(* address (src/menu.ts, the menu that works from typed addresses):        *)
(* addressFromInput() takes the first member whose address starts with the *)
(* typed text.                                                             *)

\* the texts typed at the 'Select Member' prompt
TypedAddresses == {"", "a", "a1", "a2"}

\* address.startsWith(inputText), for the addresses and the typed texts of
\* the model
startsWith(address, inputText) ==
  inputText = "" \/ inputText = "a" \/ inputText = address

\* addressFromInput: [err, id]
addressFromInput(s, button, inputText) ==
  IF button # "OK" \/ inputText = ""
    THEN [err |-> "Operation canceled", id |-> ""]
  ELSE IF \A i \in 1..Len(s.rows) : ~startsWith(s.rows[i].address, inputText)
    THEN [err |-> "Address not found", id |-> ""]
  ELSE [err |-> "none",
        id |-> s.rows[CHOOSE i \in 1..Len(s.rows) :
                        /\ startsWith(s.rows[i].address, inputText)
                        /\ \A j \in 1..(i - 1) :
                             ~startsWith(s.rows[j].address, inputText)].address]

\* adminCheckIn from a typed address; the notes prompt has the OK button only
adminCheckInOfAddress(s, button, inputText, answer, t) ==
  LET found == addressFromInput(s, button, inputText)
      rowIndex == indexOf(s, found.id)
  IN IF found.err # "none" THEN Throw(s, found.err)
     ELSE IF RowAt(s, rowIndex).checkIn # <<>>
       THEN LET r == checkOut(s, rowIndex,
                              AdminNt \o formatMetadata(answer.text), t)
            IN IF r.err # "none" THEN r ELSE Ok(checkIn(r.s, rowIndex, t))
     ELSE Ok(checkIn(s, rowIndex, t))

AdminCheckInOfAddress ==
  \E button \in {"OK", "CANCEL"}, inputText \in TypedAddresses :
    Ran("adminCheckIn", 0, inputText, button, 0,
        adminCheckInOfAddress(sheet, button, inputText, OkAnswer, now))

NextTyped == Next \/ AdminCheckInOfAddress

SpecTyped == Init /\ [][NextTyped]_vars

\* C31: after adminCheckIn for an address that has no row (the address
\* typed and confirmed with OK), the address has a row and the row is
\* checked in.
C31_AdminCheckInCreatesTheRow ==
  (/\ last.op = "adminCheckIn"
   /\ last.input = "OK"
   /\ last.address \in Addresses
   /\ ~HasRow(last.pre, last.address))
    => /\ HasRow(sheet, last.address)
       /\ CheckedIn(RowOf(sheet, last.address))

-----------------------------------------------------------------------------
(* The round trip of signed durations, in milliseconds: formatElapsedTime  *)
(* of a Date, then durationToDate of the text.                             *)

SignedInputs ==
  {sign * (h * 3600 + m * 60 + s) * 1000 :
     sign \in {-1, 1}, h \in {0, 1, 2, 25}, m \in {0, 30, 59}, s \in {0, 1, 59}}

InitSigned ==
  /\ sheet = FirstSheet
  /\ now = 0
  /\ nOps = 0
  /\ \E d \in SignedInputs :
       last = [op |-> "init", d |-> d, text |-> Zero, back |-> 0]

\* formatElapsedTime(new Date(d))
FormatSigned ==
  /\ last.op = "init"
  /\ last' = [last EXCEPT !.op = "formatElapsedTime",
                          !.text = formatElapsedTime(last.d)]
  /\ UNCHANGED <<sheet, now, nOps>>

\* durationToDate(text).getTime()
ParseSigned ==
  /\ last.op = "formatElapsedTime"
  /\ durationToDate(last.text).ok
  /\ last' = [last EXCEPT !.op = "durationToDate",
                          !.back = durationToDate(last.text).ms]
  /\ UNCHANGED <<sheet, now, nOps>>

NextSigned == FormatSigned \/ ParseSigned

SpecSigned == InitSigned /\ [][NextSigned]_vars

\* C32: for every negative duration d of whole seconds, formatElapsedTime(d)
\* has a leading "-" and durationToDate(formatElapsedTime(d)) = d.
C32_RoundTripOfNegativeDurations ==
  (last.op = "durationToDate" /\ last.d < 0)
    => /\ last.text.neg
       /\ last.back = last.d

-----------------------------------------------------------------------------
(* Claims on forms over a sheet with hand-edited week cells (SpecEdited)   *)

\* C33: when addHours throws during the checkOut of a checked-in row, the
\* row stays checked in with the check-in time it had: the form that made
\* the call, "In" or "Out", ends with the error, the check-in cell is not
\* cleared and an "In" form records no new check-in time.
C33_FailedCheckOutKeepsCheckIn ==
  (/\ FormOfMember("In") \/ FormOfMember("Out")
   /\ CheckedIn(RowOf(last.pre, last.address))
   /\ last.err # "none")
    => /\ HasRow(sheet, last.address)
       /\ RowOf(sheet, last.address).checkIn = RowOf(last.pre, last.address).checkIn
       /\ RowOf(sheet, last.address).weeks = RowOf(last.pre, last.address).weeks
       /\ RowOf(sheet, last.address).timeouts = RowOf(last.pre, last.address).timeouts

\* an "In" form, after the check-in, of a row whose current-week cell does
\* not hold a duration: addHours throws 'Invalid duration'
C33_Witness ==
  /\ FormOfMember("In")
  /\ last.err = "Invalid duration"
  /\ CheckedIn(RowOf(last.pre, last.address))
  /\ RowOf(last.pre, last.address).checkIn[1] < now
  /\ RowOf(sheet, last.address).checkIn = RowOf(last.pre, last.address).checkIn

-----------------------------------------------------------------------------
(* timeout(rowIndex) of the sweep and checkOut(rowIndex, metadata) of a    *)
(* form, run at the same time on the rows of both members: each reads the  *)
(* check-in cell first and, when it is not blank, adds hours and clears    *)
(* the cell afterwards.  `last` holds what each call has read and the      *)
(* number of check-ins of each address so far.                             *)

MaxRaces == 3

IdleRead == [pc |-> "idle", rowIndex |-> 0, input |-> "", checkInTime |-> <<>>]

RaceSheets ==
  {[BothRows EXCEPT !.rows = <<[BothRows.rows[1] EXCEPT !.checkIn = first],
                               [BothRows.rows[2] EXCEPT !.checkIn = second]>>] :
     first \in {<<>>, <<0>>}, second \in {<<>>, <<0>>}}

InitRace ==
  /\ sheet \in RaceSheets
  /\ now = 0
  /\ last = [checkIns |-> [a \in Addresses |->
                             IF CheckedIn(RowOf(sheet, a)) THEN 1 ELSE 0],
             sweep |-> IdleRead,
             form |-> [a \in Addresses |-> IdleRead]]
  /\ nOps = 0

\* timeout(rowIndex), for a row index that timeoutCheck() returns: the read
\* of the check-in cell
TimeoutRead ==
  /\ nOps < MaxRaces
  /\ last.sweep.pc = "idle"
  /\ \E k \in 1..Len(timeoutCheck(sheet, now)) :
       LET rowIndex == timeoutCheck(sheet, now)[k]
       IN last' = [last EXCEPT !.sweep =
                     [pc |-> "read", rowIndex |-> rowIndex, input |-> "",
                      checkInTime |-> RowAt(sheet, rowIndex).checkIn]]
  /\ nOps' = nOps + 1
  /\ UNCHANGED <<sheet, now>>

\* timeout from the test of the value read on
timeoutOf(s, rowIndex, checkInTime, t) ==
  IF checkInTime # <<>>
    THEN LET r == addHours(s, rowIndex, timeoutReturnTime,
                           timeDateFormatter(checkInTime[1]), Timeout, t)
         IN IF r.err # "none" THEN r
            ELSE Ok(SetRow(r.s, rowIndex,
                           [RowAt(r.s, rowIndex) EXCEPT
                              !.checkIn = <<>>, !.timeouts = @ + 1]))
    ELSE Ok(s)

TimeoutWrite ==
  /\ last.sweep.pc = "read"
  /\ sheet' = timeoutOf(sheet, last.sweep.rowIndex, last.sweep.checkInTime, now).s
  /\ last' = [last EXCEPT !.sweep = IdleRead]
  /\ UNCHANGED <<now, nOps>>

\* onFormSubmit of a member up to the read of the check-in cell in checkOut
CheckOutRead(address) ==
  /\ nOps < MaxRaces
  /\ last.form[address].pc = "idle"
  /\ \E input \in {"In", "Out"} :
       last' = [last EXCEPT !.form[address] =
                  [pc |-> "read", rowIndex |-> indexOf(sheet, address),
                   input |-> input,
                   checkInTime |-> RowOf(sheet, address).checkIn]]
  /\ nOps' = nOps + 1
  /\ UNCHANGED <<sheet, now>>

\* checkOut from the test of the value read on
checkOutOf(s, rowIndex, checkInTime, metadata, t) ==
  IF checkInTime # <<>>
    THEN LET r == addHours(s, rowIndex, t - checkInTime[1],
                           timeDateFormatter(checkInTime[1]), metadata, t)
         IN IF r.err # "none" THEN r
            ELSE Ok(SetRow(r.s, rowIndex,
                           [RowAt(r.s, rowIndex) EXCEPT !.checkIn = <<>>]))
    ELSE Ok(s)

\* the rest of checkOut and, for 'In', checkIn
CheckOutWrite(address) ==
  /\ last.form[address].pc = "read"
  /\ LET call == last.form[address]
         r == checkOutOf(sheet, call.rowIndex, call.checkInTime, <<>>, now)
         checksIn == r.err = "none" /\ call.input = "In"
     IN /\ sheet' = IF checksIn THEN checkIn(r.s, call.rowIndex, now) ELSE r.s
        /\ last' = [last EXCEPT
                      !.form[address] = IdleRead,
                      !.checkIns[address] = IF checksIn THEN @ + 1 ELSE @]
  /\ UNCHANGED <<now, nOps>>

NextRace ==
  \/ PassInWeek
  \/ TimeoutRead
  \/ TimeoutWrite
  \/ \E address \in Addresses : CheckOutRead(address)
  \/ \E address \in Addresses : CheckOutWrite(address)

SpecRace == InitRace /\ [][NextRace]_vars

\* the number of annotations 'Logged ... from checkin ...' of a row
RECURSIVE CheckinEntries(_)
CheckinEntries(cells) ==
  IF cells = <<>> THEN 0
  ELSE Cardinality({k \in 1..Len(Head(cells).note) :
                      Head(cells).note[k].from.tag = "checkin"})
         + CheckinEntries(Tail(cells))

\* C34: whatever the interleaving of the sweep's timeout of a row with the
\* checkOut of the same row by a form, each check-in of the row is credited
\* at most once, with the elapsed time or with the timeout return: the
\* number of "checkin" annotations of a row is at most the number of its
\* check-ins.
C34_EachCheckInCreditedOnce ==
  \A address \in Addresses :
    CheckinEntries(RowOf(sheet, address).weeks) <= last.checkIns[address]

-----------------------------------------------------------------------------
(* src/app.js, the first variant: forms and the "Check for timeout" menu   *)
(* item.  Its sheet has no requirement column and its cells have no notes. *)
(* The handlers read the globals members and checkedIn once, in            *)
(* updateVars(), at their start.                                           *)

appTimeoutReq == 7200000

\* var checkedIn = Object.create(null): an object without a prototype, so
\* without the method hasOwnProperty
checkedInHasPrototype == FALSE

\* the globals after updateVars(): members, and checkedIn as the pairs
\* <<member, timestamp>> in the order of their rows (the order of for...in)
RECURSIVE checkInsOf(_)
checkInsOf(rows) ==
  IF rows = <<>> THEN <<>>
  ELSE (IF Head(rows).checkIn # <<>>
          THEN <<<<Head(rows).address, Head(rows).checkIn[1]>>>> ELSE <<>>)
         \o checkInsOf(Tail(rows))

updateVarsOf(s) == [members |-> members(s), checkedIn |-> checkInsOf(s.rows)]

\* members.includes(id)
includes(mem, id) == \E i \in 1..Len(mem) : mem[i] = id

\* members.indexOf(id) + 2: the row of the member, row 1 when absent
memberRow(mem, id) ==
  IF includes(mem, id) THEN 1 + CHOOSE i \in 1..Len(mem) :
                                   /\ mem[i] = id
                                   /\ \A j \in 1..(i - 1) : mem[j] # id
  ELSE 1

\* checkedIn[id] as <<timestamp>>, <<>> when id is no key
checkedInAt(checkedIn, id) ==
  IF \E i \in 1..Len(checkedIn) : checkedIn[i][1] = id
    THEN <<(CHOOSE pair \in {checkedIn[i] : i \in 1..Len(checkedIn)} : pair[1] = id)[2]>>
    ELSE <<>>

\* checkOut(id, elapsed, modifier) of a checked-in member with a row
checkOutOfMember(s, v, id, elapsed, modifier) ==
  LET checkInTime == checkedInAt(v.checkedIn, id)[1]
      s1 == IF checkInTime - currentWeekMarker(s) > weekMs
              THEN openWeek(s, weekStart(checkInTime)) ELSE s
      rowIndex == memberRow(v.members, id)
      time == durationToDate(RowAt(s1, rowIndex).weeks[1].val)
      sum == time.ms + elapsed * modifier
  IN IF ~time.ok THEN Throw(s1, "Invalid starting time")
     ELSE IF modifier < 0 /\ sum < 0
       THEN Throw(s1, "Cannot remove more hours than are logged")
     ELSE Ok(SetRow(s1, rowIndex,
                    [RowAt(s1, rowIndex) EXCEPT
                       !.weeks[1] = Cell(formatSeconds(FALSE, sum \div 1000), <<>>),
                       !.checkIn = <<>>]))

\* the for...in loop of checkForTimeout over the pairs of checkedIn
RECURSIVE checkForTimeoutFrom(_, _, _, _)
checkForTimeoutFrom(s, v, pairs, time) ==
  IF pairs = <<>> THEN Ok(s)
  ELSE IF time - Head(pairs)[2] > appTimeoutReq
    THEN LET member == Head(pairs)[1]
             r == checkOutOfMember(s, v, member, timeoutReturnTime, 1)
             rowIndex == memberRow(v.members, member)
         IN IF r.err # "none" THEN r
            ELSE checkForTimeoutFrom(
                   SetRow(r.s, rowIndex,
                          [RowAt(r.s, rowIndex) EXCEPT !.timeouts = @ + 1]),
                   v, Tail(pairs), time)
  ELSE checkForTimeoutFrom(s, v, Tail(pairs), time)

checkForTimeout(s, v, time) == checkForTimeoutFrom(s, v, v.checkedIn, time)

\* the row addNewMember writes: address, timeouts 0 and '0:0:0' in column E
AppRow(id, n) ==
  [address |-> id, checkIn |-> <<>>, timeouts |-> 0,
   weeks |-> <<Cell(Zero, <<>>)>> \o blankCells(n - 1)]

\* addNewMember(id): after the sort, members.push(member) reads a variable
\* that is declared nowhere
addNewMember(s, v, id) ==
  IF ~includes(v.members, id)
    THEN Throw([s EXCEPT !.rows = sortRows(<<AppRow(id, Len(s.headers))>> \o s.rows)],
               "ReferenceError: member is not defined")
    ELSE Ok(s)

\* the two statements of onFormSubmit after checkForTimeout()
formCheckIn(s, v, timestamp, id, input) ==
  IF ~checkedInHasPrototype
    THEN Throw(s, "TypeError: checkedIn.hasOwnProperty is not a function")
  ELSE LET r == IF checkedInAt(v.checkedIn, id) # <<>>
                  THEN checkOutOfMember(s, v, id,
                                        timestamp - checkedInAt(v.checkedIn, id)[1], 1)
                  ELSE Ok(s)
           rowIndex == memberRow(v.members, id)
       IN IF r.err # "none" THEN r
          ELSE IF input = "In"
            THEN Ok(SetRow(r.s, rowIndex,
                           [RowAt(r.s, rowIndex) EXCEPT !.checkIn = <<timestamp>>]))
          ELSE r

\* onFormSubmit(e) with e.values = [timestamp, id, input], at time t
onFormSubmitOfApp(s, timestamp, id, input, t) ==
  LET v == updateVarsOf(s)
      added == addNewMember(s, v, id)
      checked == checkForTimeout(added.s, v, t)
  IN IF added.err # "none" THEN added
     ELSE IF checked.err # "none" THEN checked
     ELSE formCheckIn(checked.s, v, timestamp, id, input)

\* adminTimeout(): updateVars(); checkForTimeout()
adminTimeout(s, t) == checkForTimeout(s, updateVarsOf(s), t)

\* The sheets of the variant at the start: the row of a1 alone or with the
\* row of a2, each row checked in at 0 or not.
AppSheets ==
  {[headers |-> <<0>>, rows |-> rows] :
     rows \in {<<[AppRow("a1", 1) EXCEPT !.checkIn = c1]>> : c1 \in {<<>>, <<0>>}}
         \cup {<<[AppRow("a1", 1) EXCEPT !.checkIn = c1],
                 [AppRow("a2", 1) EXCEPT !.checkIn = c2]>> :
                  c1 \in {<<>>, <<0>>}, c2 \in {<<>>, <<0>>}}}

InitApp ==
  /\ sheet \in AppSheets
  /\ now = 0
  /\ last = [op |-> "init", row |-> 0, address |-> "", input |-> "",
             elapsed |-> 0, pre |-> sheet, err |-> "none"]
  /\ nOps = 0

\* a form response; its timestamp is the time of the submission
FormSubmitOfApp ==
  \E address \in Addresses, input \in {"In", "Out"} :
    Ran("onFormSubmit", 0, address, input, 0,
        onFormSubmitOfApp(sheet, now, address, input, now))

AdminTimeout == Ran("adminTimeout", 0, "", "", 0, adminTimeout(sheet, now))

NextApp == Tick \/ FormSubmitOfApp \/ AdminTimeout

SpecApp == InitApp /\ [][NextApp]_vars

\* C40: in the app.js variant, after onFormSubmit of a first "In" form of
\* an address without a row, the handler has completed, the address has a
\* row and is a member, and its check-in time is the timestamp of the form.
C40_FirstInFormCreatesAndChecksIn ==
  (last.op = "onFormSubmit" /\ last.input = "In" /\ ~HasRow(last.pre, last.address))
    => /\ last.err = "none"
       /\ HasRow(sheet, last.address)
       /\ includes(updateVarsOf(sheet).members, last.address)
       /\ RowOf(sheet, last.address).checkIn = <<now>>

-----------------------------------------------------------------------------
(* The sweep as a recurring time-driven trigger: over the sheets of        *)
(* SpecEdited, with rows that no form checks out, the clock advances and   *)
(* updateTimeouts() runs again and again.                                  *)

\* a run of the recurring trigger; it is not counted among the handlers
SweepAgain ==
  \E r \in {updateTimeouts(sheet, now)} :
    /\ sheet' = r.s
    /\ last' = [op |-> "updateTimeouts", row |-> 0, address |-> "", input |-> "",
                elapsed |-> 0, pre |-> sheet, err |-> r.err]
    /\ UNCHANGED <<now, nOps>>

\* the clock moves to its next instant, whatever the handlers did
Advance ==
  /\ \E t \in Instants :
       /\ t > now
       /\ \A u \in Instants : u > now => t <= u
       /\ now' = t
  /\ last' = [op |-> "tick", row |-> 0, address |-> "", input |-> "",
              elapsed |-> 0, pre |-> sheet, err |-> "none"]
  /\ UNCHANGED <<sheet, nOps>>

NextRecurring == Advance \/ SweepAgain

\* the trigger fires every few minutes and the clock goes on
SpecRecurring ==
  /\ InitEdited
  /\ [][NextRecurring]_vars
  /\ WF_vars(SweepAgain)
  /\ WF_vars(Advance)

\* C35: with the sweep recurring and the time advancing, a row whose
\* check-in is older than timeoutReq and whose current-week cell holds a
\* duration is eventually checked out, and it is checked out by the next
\* sweep that runs.
C35_OverdueRowIsCheckedOutByTheNextSweep ==
  /\ \A address \in Addresses :
       (/\ HasRow(sheet, address)
        /\ Overdue(RowOf(sheet, address))
        /\ RowOf(sheet, address).weeks[1].val.kind = "dur")
         ~> (HasRow(sheet, address) /\ ~CheckedIn(RowOf(sheet, address)))
  /\ [](last.op = "updateTimeouts"
          => \A address \in Addresses :
               (/\ HasRow(last.pre, address)
                /\ Overdue(RowOf(last.pre, address))
                /\ RowOf(last.pre, address).weeks[1].val.kind = "dur")
                 => ~CheckedIn(RowOf(sheet, address)))

-----------------------------------------------------------------------------
(* The missed-hours debt under the handlers: sheets whose row, checked in  *)
(* at 0, has a week of history (logged below, at or above the requirement) *)
(* and one of two requirements, under the handlers that log hours: forms,  *)
(* the sweep, the admin's check-out and the admin's corrections.           *)

LedgerRows ==
  {[NewRow("a1") EXCEPT !.hourReq = req, !.checkIn = <<0>>,
                        !.weeks = <<Cell(Zero, <<>>), Cell(logged, <<>>)>>] :
     req \in {Dur(FALSE, 6, 0, 0), Dur(FALSE, 2, 30, 0)},
     logged \in {Zero, Dur(FALSE, 2, 30, 0), Dur(FALSE, 9, 0, 0)}}

\* the current week starts at 0, the week before it is the history
LedgerSheets == {[headers |-> <<0, -weekMs>>, rows |-> <<row>>] : row \in LedgerRows}

InitLedger ==
  /\ sheet \in LedgerSheets
  /\ now = 0
  /\ last = [op |-> "init", row |-> 0, address |-> "", input |-> "",
             elapsed |-> 0, pre |-> sheet, err |-> "none"]
  /\ nOps = 0

NextLedger == Tick \/ FormSubmit \/ Sweep \/ AdminCheckOut \/ AdminModifyHours

SpecLedger == InitLedger /\ [][NextLedger]_vars

\* the missed-hours debt of the row of an address on a sheet, in ms
Debt(s, address) == GET_MISSED_HOURS(s, indexOf(s, address)).ms

\* GET_MISSED_HOURS returns a duration for the row of the address before
\* and after the last handler
HasDebt(address) ==
  /\ HasRow(last.pre, address)
  /\ GET_MISSED_HOURS(last.pre, indexOf(last.pre, address)).err = "none"
  /\ GET_MISSED_HOURS(sheet, indexOf(sheet, address)).err = "none"

\* the last handler opened a week
RolledOver == Len(sheet.headers) > Len(last.pre.headers)

\* the last handler took hours from the row of the address
NegativeCorrection(address) ==
  /\ ModifiedHours
  /\ last.elapsed < 0
  /\ last.err = "none"
  /\ RowAt(last.pre, last.row).address = address

\* what the week that became history adds to the debt of a row
Shortfall(p) ==
  LET requirement == LoggedMs([val |-> p.hourReq])
      logged == LoggedMs(p.weeks[1])
  IN IF logged < requirement THEN 2 * (requirement - logged) ELSE 0

\* C36: a handler that opens no week and takes no hours from a row (a
\* check-out, a timeout, a correction that is not negative) does not raise
\* the missed-hours debt of the row; a handler that opens a week raises the
\* debt by at most 2 * (hourRequirement - logged) of the week that became
\* history, and by exactly that when the new week holds no surplus.  (The
\* debt of a row is a function of its requirement and week cells: a row
\* that keeps them keeps its debt.)
C36_DebtRisesOnlyAtRollover ==
  RanHandler
    => \A address \in Addresses :
         (/\ HasRow(last.pre, address)
          /\ RowOf(sheet, address).weeks # RowOf(last.pre, address).weeks
          /\ ~NegativeCorrection(address))
           => \A g0 \in {GET_MISSED_HOURS(last.pre, indexOf(last.pre, address))},
                 g1 \in {GET_MISSED_HOURS(sheet, indexOf(sheet, address))} :
                (g0.err = "none" /\ g1.err = "none")
                  => LET p == RowOf(last.pre, address)
                         q == RowOf(sheet, address)
                     IN /\ q.hourReq = p.hourReq
                        /\ ~RolledOver => g1.ms <= g0.ms
                        /\ RolledOver => g1.ms <= g0.ms + Shortfall(p)
                        /\ (RolledOver /\ LoggedMs(q.weeks[1]) <= LoggedMs([val |-> q.hourReq]))
                             => g1.ms = g0.ms + Shortfall(p)

\* a check-out in a week with debt, of a row that logs more than the
\* requirement, lowers the debt and opens no week
C36_Witness ==
  /\ CheckedOut
  /\ ~RolledOver
  /\ HasDebt(RowAt(last.pre, last.row).address)
  /\ Debt(sheet, RowAt(last.pre, last.row).address)
       < Debt(last.pre, RowAt(last.pre, last.row).address)
  /\ Len(sheet.headers) = 2

\* the last handler added an entry to the current week of a row
LoggedEntry ==
  /\ RanHandler
  /\ \E address \in Addresses :
       /\ HasRow(last.pre, address)
       /\ Len(RowOf(sheet, address).weeks[1].note)
            > Len(EntryBefore(RowOf(last.pre, address), RowOf(sheet, address)).note)

\* C38: after every addHours that logged an entry at time now, the Monday
\* of the current week column is not after now and not more than 7 days
\* before now.
C38_LoggedWithinSevenDaysOfTheMarker ==
  LoggedEntry
    => /\ 0 <= now - currentWeekMarker(sheet)
       /\ now - currentWeekMarker(sheet) <= weekMs

\* hours logged exactly 7 days after the Monday of the current week column
C38_Witness ==
  /\ LoggedEntry
  /\ now - currentWeekMarker(sheet) = weekMs
  /\ last.err = "none"

\* a check-out, by form or by the menu, of a row whose check-in is older
\* than timeoutReq
CheckedOutLate ==
  /\ CheckedOut
  /\ now - RowAt(last.pre, last.row).checkIn[1] > timeoutReq

\* C39 (as stated): a check-out by form or by the menu of a row whose
\* check-in is older than timeoutReq credits exactly now - checkInTime, not
\* the timeout return, and leaves the timeout counter.
C39_LateCheckOutCreditsElapsedExactly ==
  CheckedOutLate
    => /\ LoggedMs(RowAt(sheet, last.row).weeks[1])
            = LoggedMs(EntryBefore(RowAt(last.pre, last.row), RowAt(sheet, last.row)))
                + (now - RowAt(last.pre, last.row).checkIn[1])
       /\ RowAt(sheet, last.row).timeouts = RowAt(last.pre, last.row).timeouts

\* C39: the same with the credit that the cell can hold: now - checkInTime
\* cut down to whole seconds, which is more than the timeout return.
C39_LateCheckOutCreditsElapsedSeconds ==
  CheckedOutLate
    => \A credit \in {((now - RowAt(last.pre, last.row).checkIn[1]) \div 1000) * 1000} :
         /\ LoggedMs(RowAt(sheet, last.row).weeks[1])
              = LoggedMs(EntryBefore(RowAt(last.pre, last.row), RowAt(sheet, last.row)))
                  + credit
         /\ credit > timeoutReturnTime
         /\ RowAt(sheet, last.row).timeouts = RowAt(last.pre, last.row).timeouts
         /\ RowAt(sheet, last.row).checkIn = <<>>

\* a check-out by the menu 3 h 15 min 0.5 s after the check-in
C39_Witness ==
  /\ CheckedOutLate
  /\ last.op = "adminCheckOut"
  /\ now - RowAt(last.pre, last.row).checkIn[1] = timeoutReq + 500

====
